---- MODULE Spec2Model ----
(***************************************************************************)
(* Model of the OCR pipeline: the document ingestion stream,               *)
(* core/file_handler.py, iterate_document_items; the loop of main.py that  *)
(* consumes it, with process_single_item; core/output_handler.py,          *)
(* save_result and sanitize_filename; core/post_processor.py, clean_text.  *)
(*                                                                         *)
(* The generator is a coroutine: it runs only between a pull of the        *)
(* consumer (next()) and its next yield.  Each action below is one block   *)
(* of the generator's code, from where it resumes to where it suspends or  *)
(* branches.  File names are sequences of one-character strings, so that   *)
(* str.lower() and os.path.splitext() are computed rather than assumed;    *)
(* paths are sequences of such names.                                      *)
(***************************************************************************)
EXTENDS Integers, Sequences, FiniteSets, TLC

VARIABLES
    input_dir,              \* what input_dir_abs is: "directory", "missing" or "unreadable"
    scan,                   \* 1 in the first call of iterate_document_items, 2 in a second one
    earlier,                \* history: what the first call met and yielded, once a second one runs
    changed,                \* the entry whose files behave differently in the second call, or 0
    platform,               \* "windows", where relpath can raise ValueError (line 55), or "posix"
    walk,                   \* the entries os.walk lists, in order
    config,                 \* the config dict, as a set of <<key, value>> pairs
    ctl,                    \* who runs: "consumer" or "generator"
    pc,                     \* where the generator stands
    idx,                    \* position of the current file in walk
    relative_path,          \* local of the generator
    total_pages,            \* local of the generator
    page_num,               \* local of the generator
    img,                    \* local of the generator: the opened image, or None
    images,                 \* local of the generator: the list convert_from_path returned last
    page_img,               \* local of the generator: the page handed to the consumer
    found_files_count,      \* local of the generator
    processed_items_count,  \* local of the generator
    walk_error,             \* history: the exception os.walk raised after the listing, or "none"
    env,                    \* history: what the external operations did on each entry reached
    out,                    \* the items yielded so far, in order
    origin,                 \* history: the file and page whose iteration yielded out[i]
    calls,                  \* history: the external operations invoked, in order
    log,                    \* the log records written, in order
    total_items_yielded,    \* local of main
    processed_count,        \* local of main
    error_count,            \* local of main
    stages,                 \* history: the stages main ran for each item it received
    exit_code,              \* the code main exits with, or NotExited while it runs
    output_dir,             \* the output directory: whether it exists, and its files
    call,                   \* the arguments of the one call of a function checked on its own
    ret                     \* what that call returned, or NoCall before it

\* The value of exit_code while main runs
NotExited == 0 - 1

\* The locals of main (src/main.py)
main_vars == <<total_items_yielded, processed_count, error_count, stages, exit_code>>

\* The output directory and the call of a function checked on its own
\* (src/core/output_handler.py, src/core/post_processor.py)
fn_vars == <<output_dir, call, ret>>

\* No such call: the value of call and ret within a run of the pipeline
NoCall == [op |-> "none"]

\* The directory main ensures before the scan (src/main.py lines 165-175)
EmptyDir == [exists |-> TRUE, files |-> {}]

vars == <<input_dir, scan, earlier, changed, platform, walk, config, ctl, pc, idx, relative_path,
          total_pages, page_num, img, images, page_img, found_files_count,
          processed_items_count, walk_error, env, out, origin, calls, log, main_vars, fn_vars>>

-----------------------------------------------------------------------------
(* Bounds of the model *)

MaxFiles == 2      \* entries in one listing
MaxPages == 3      \* pages the probe can report for the PDF of the top directory
MaxPagesSub == 1   \* pages the probe can report for the PDF of the sub-directory
MaxPagesIso == 2   \* pages the probe can report for a PDF scanned twice
MaxPagesMain == 2  \* pages the probe can report for the PDF of the top directory that main is run on

-----------------------------------------------------------------------------
(* Characters, names and paths *)

UpperCase == <<"A","B","C","D","E","F","G","H","I","J","K","L","M",
               "N","O","P","Q","R","S","T","U","V","W","X","Y","Z">>
LowerCase == <<"a","b","c","d","e","f","g","h","i","j","k","l","m",
               "n","o","p","q","r","s","t","u","v","w","x","y","z">>

\* The lower-case letter of every upper-case letter
Lowered ==
    [c \in { UpperCase[i] : i \in DOMAIN UpperCase } |->
        LowerCase[CHOOSE i \in DOMAIN UpperCase : UpperCase[i] = c]]

LowerChar(c) == IF c \in DOMAIN Lowered THEN Lowered[c] ELSE c

\* lower as it would be if the case were kept
lower_KeepsCase(s) == s

\* str.lower()
lower(s) == [i \in 1..Len(s) |-> LowerChar(s[i])]

SetMax(S) == CHOOSE m \in S : \A x \in S : x <= m

\* os.path.splitext(p)[1] for a name without separators: the text from the
\* last dot on, unless every character before that dot is a dot.
splitext(p) ==
    LET dots == {i \in 1..Len(p) : p[i] = "."}
        dotIndex == IF dots = {} THEN 0 ELSE SetMax(dots)
    IN  IF dotIndex > 0 /\ \E j \in 1..(dotIndex - 1) : p[j] # "."
        THEN SubSeq(p, dotIndex, Len(p))
        ELSE <<>>

SUPPORTED_IMAGE_EXT ==
    { <<".","j","p","g">>, <<".","j","p","e","g">>, <<".","p","n","g">>,
      <<".","b","m","p">>, <<".","t","i","f","f">>, <<".","t","i","f">> }
SUPPORTED_PDF_EXT == { <<".","p","d","f">> }

\* line 49
file_extension(item_name) == splitext(lower(item_name))

\* os.path.join(root, item_name), on paths as sequences of components
join(root, item_name) == Append(root, item_name)

\* os.path.relpath(path, start): ".." for each component of start after the
\* common prefix, then the rest of path.
CommonLen(p, s) ==
    SetMax({n \in 0..(IF Len(p) < Len(s) THEN Len(p) ELSE Len(s)) :
                \A k \in 1..n : p[k] = s[k]})
relpath(path, start) ==
    LET i == CommonLen(path, start)
    IN  [k \in 1..(Len(start) - i) |-> <<".",".">>] \o SubSeq(path, i + 1, Len(path))

\* os.path.basename(input_dir_abs.rstrip('/\\'))
basename(path) == path[Len(path)]

None == [none |-> TRUE]

\* dict.get(key, default)
DictGet(d, key, default) ==
    IF \E kv \in d : kv[1] = key
    THEN (CHOOSE kv \in d : kv[1] = key)[2]
    ELSE default

DEFAULT_PDF_DPI == 300
\* the value the module's own test block configures
ConfiguredDpi == 72

\* line 31
pdf_dpi == DictGet(config, "pdf_dpi", DEFAULT_PDF_DPI)

-----------------------------------------------------------------------------
(* The inputs: the scanned tree and what the external operations do *)

\* the input_dir_abs argument
input_dir_abs == << <<"d","a","t","a">>, <<"i","n">> >>

\* line 33
input_dir_base_name == basename(input_dir_abs)

RootDir == <<>>
SubDir  == << <<"s","u","b">> >>

NameImage == <<"a",".","P","N","G">>
NamePdf   == <<"b",".","p","d","f">>
NameOther == <<"c",".","t","x","t">>

\* The entries os.walk can list, top directory first.  kind is what the file
\* really holds, whatever its name says, and max_pages the most pages the
\* probe can report for it.
Entry(dir, name, kind, max_pages) ==
    [dir |-> dir, name |-> name, kind |-> kind, max_pages |-> max_pages]

Catalogue ==
    << Entry(RootDir, NameImage, "image", 0),
       Entry(RootDir, NamePdf,   "pdf",   MaxPages),
       Entry(RootDir, NameOther, "other", 0),
       Entry(SubDir,  NameImage, "image", 0),
       Entry(SubDir,  NamePdf,   "pdf",   MaxPagesSub) >>

\* The strictly increasing index sequences of length n into 1..m
RECURSIVE Picks(_, _)
Picks(n, m) ==
    IF n = 0 THEN { <<>> }
    ELSE UNION { { Append(s, k) : s \in Picks(n - 1, k - 1) } : k \in n..m }

Min(a, b) == IF a < b THEN a ELSE b

\* Every listing of at most MaxFiles catalogue entries, in catalogue order
Walks ==
    UNION { { [k \in 1..n |-> Catalogue[pick[k]]] : pick \in Picks(n, Len(Catalogue)) } :
                n \in 0..Min(MaxFiles, Len(Catalogue)) }

TestConfig == { <<"pdf_dpi", ConfiguredDpi>> }
Configs == { {}, { <<"pdf_dpi", ConfiguredDpi>> } }

\* What the external operations can do on an entry.  An operation the file's
\* content cannot satisfy fails: an image is no PDF and a PDF is no image.
DecodeErrors == {"UnidentifiedImageError", "OSError"}

\* What decoding does: the calls of lines 64, 65 and 75 (Image.open, img.load
\* and img.copy) return, or one of them raises.  A file that is no image is
\* refused by Image.open.
DecodeOutcomes(f) ==
    IF f.kind = "image"
    THEN { [decode |-> "ok", at |-> "none"] }
         \cup [decode : DecodeErrors, at : {"open", "load", "copy"}]
    ELSE [decode : DecodeErrors, at : {"open"}]
CloseOutcomes == {"ok", "raise"}
RenderOutcomes == {"ok", "empty", "raise"}
ProbeErrors == {"PDFPageCountError", "FileNotFoundError", "Exception"}

\* What pdfinfo_from_path returns: a dict with or without the key "Pages".
InfoDicts(f) == { {} } \cup { { <<"Pages", n>> } : n \in 0..f.max_pages }
ProbeOutcomes(f) ==
    { [probe |-> e, info |-> {}] : e \in ProbeErrors }
    \cup (IF f.kind = "pdf" THEN { [probe |-> "ok", info |-> i] : i \in InfoDicts(f) } ELSE {})

\* os.path.relpath raises ValueError for paths on different drives (line 55)
RelpathOutcomes == IF platform = "windows" THEN BOOLEAN ELSE {FALSE}

\* In a second call the operations repeat, on every entry but changed, what
\* they did in the first one.
Replayed(i) == scan = 2 /\ i # changed /\ i <= Len(earlier.env)

RelpathChoices(i) ==
    IF Replayed(i) THEN { earlier.env[i].relpath_error } ELSE RelpathOutcomes
DecodeChoices(i) ==
    IF Replayed(i) /\ earlier.env[i].decode # "not called"
    THEN { [decode |-> earlier.env[i].decode, at |-> earlier.env[i].decode_at] }
    ELSE DecodeOutcomes(walk[i])
CloseChoices(i) ==
    IF Replayed(i) /\ earlier.env[i].close # "not called"
    THEN { earlier.env[i].close } ELSE CloseOutcomes
ProbeChoices(i) ==
    IF Replayed(i) /\ earlier.env[i].probe # "not called"
    THEN { [probe |-> earlier.env[i].probe, info |-> earlier.env[i].info] }
    ELSE ProbeOutcomes(walk[i])
RenderChoices(i, page) ==
    IF Replayed(i) /\ page <= Len(earlier.env[i].render)
    THEN { earlier.env[i].render[page] } ELSE RenderOutcomes

\* The record kept of what the operations did on one entry
Outcome(re, decode, probe, info) ==
    [relpath_error |-> re, decode |-> decode, decode_at |-> "none", close |-> "not called",
     probe |-> probe, info |-> info, render |-> <<>>]

-----------------------------------------------------------------------------
(* The generator's view of the current file *)

\* line 48, for entry f of the listing
file_path(f) == join(input_dir_abs \o f.dir, f.name)

\* RelativePathOf as it would be if the fallback were the full path
RelativePathOf_FullPath(f, relpath_error) ==
    IF relpath_error THEN file_path(f) ELSE relpath(file_path(f), input_dir_abs)

\* lines 52-57: the relative path, or the bare file name when relpath raises
RelativePathOf(f, relpath_error) ==
    IF relpath_error THEN << f.name >> ELSE relpath(file_path(f), input_dir_abs)

LogRecord(level, msg, path, page) ==
    [level |-> level, msg |-> msg, path |-> path, page |-> page]

\* line 56
RelpathLog(f, relpath_error) ==
    IF relpath_error THEN << LogRecord("error", "relpath", file_path(f), 0) >> ELSE <<>>

Call(op, path, dpi, first, last) ==
    [op |-> op, path |-> path, dpi |-> dpi, first_page |-> first, last_page |-> last]

\* RenderCall as it would be if the range ran to the end of the document
RenderCall_ToLastPage(f, page) ==
    Call("convert_from_path", file_path(f), pdf_dpi, page, total_pages)

\* lines 106-112
RenderCall(f, page) == Call("convert_from_path", file_path(f), pdf_dpi, page, page)

\* Metadata as it would be if pages were numbered from zero
Metadata_PageFromZero(f, rel, type, page) ==
    [input_directory   |-> input_dir_base_name,
     relative_path     |-> rel,
     original_filename |-> f.name,
     source_path       |-> file_path(f),
     source_type       |-> type,
     page_num          |-> page - 1]

\* lines 66-73 and 116-123
Metadata(f, rel, type, page) ==
    [input_directory   |-> input_dir_base_name,
     relative_path     |-> rel,
     original_filename |-> f.name,
     source_path       |-> file_path(f),
     source_type       |-> type,
     page_num          |-> page]

\* A decoded raster: the file and page it shows; copy tells the copy made by
\* img.copy() from the opened image.
Image(f, page, copy) == [path |-> file_path(f), page |-> page, copy |-> copy]

\* Item as it would be if the raster were dropped from the pair
Item_WithoutImage(metadata, image) == [metadata |-> metadata, image |-> None]

\* lines 75 and 126: the yielded pair
Item(metadata, image) == [metadata |-> metadata, image |-> image]

\* lines 79, 82, 130, 136, 141, 144, 148
FailedItem == Item(None, None)

Origin(i, page) == [file |-> i, page |-> page]

\* lines 46-47: os.walk has another entry to deliver
HasNext == idx < Len(walk)
NextEntry == walk[idx + 1]

\* Yield as it would be if the generator went on working after handing an
\* item over, without waiting for the consumer to ask for the next one
Yield_KeepsRunning(item, i, page, at) ==
    /\ out' = Append(out, item)
    /\ origin' = Append(origin, Origin(i, page))
    /\ pc' = at
    /\ ctl' = "generator"

\* yield: the item goes to the consumer and the generator is suspended at at
Yield(item, i, page, at) ==
    /\ out' = Append(out, item)
    /\ origin' = Append(origin, Origin(i, page))
    /\ pc' = at
    /\ ctl' = "consumer"

-----------------------------------------------------------------------------
(* The consumer *)

\* next(item_iterator): main.py line 187
Pull ==
    /\ ctl = "consumer"
    /\ pc \notin {"done", "closed", "raised"}
    /\ ctl' = "generator"
    /\ UNCHANGED <<main_vars, fn_vars, images, page_img, walk_error>>
    /\ UNCHANGED <<input_dir, scan, earlier, changed, platform, walk, config, pc, idx, relative_path, total_pages, page_num, img,
                   found_files_count, processed_items_count, env, out, origin, calls, log>>

-----------------------------------------------------------------------------
(* The generator *)

\* line 35
StartLog == LogRecord("info", "scan start", input_dir_abs, 0)

\* Start as it would be if the walk were kept from one call to the next and
\* went on where it stood
Start_ResumesWalk ==
    /\ ctl = "generator"
    /\ pc = "start"
    /\ pc' = "walk"
    /\ log' = Append(log, StartLog)
    /\ found_files_count' = 0
    /\ processed_items_count' = 0
    /\ UNCHANGED idx
    /\ UNCHANGED <<main_vars, fn_vars, images, page_img, walk_error>>
    /\ UNCHANGED <<input_dir, scan, earlier, changed, platform, walk, config, ctl, relative_path, total_pages, page_num, img,
                   env, out, origin, calls>>

\* lines 31-46: the first pull runs the prologue, which zeroes the counters
\* and starts a walk of its own at the first entry of the listing
Start ==
    /\ ctl = "generator"
    /\ pc = "start"
    /\ pc' = "walk"
    /\ log' = Append(log, StartLog)
    /\ found_files_count' = 0
    /\ processed_items_count' = 0
    /\ idx' = 0
    /\ UNCHANGED <<main_vars, fn_vars, images, page_img, walk_error>>
    /\ UNCHANGED <<input_dir, scan, earlier, changed, platform, walk, config, ctl, relative_path, total_pages, page_num, img,
                   env, out, origin, calls>>

\* lines 47-82, an entry with an image extension: open, load, copy, yield.
\* When load or copy raises, img stays bound to the image that was opened,
\* which is not closed; when copy raises, the item was already counted on
\* line 74.
NextImage ==
    /\ ctl = "generator"
    /\ pc = "walk"
    /\ HasNext
    /\ file_extension(NextEntry.name) \in SUPPORTED_IMAGE_EXT
    /\ \E re \in RelpathChoices(idx + 1), d \in DecodeChoices(idx + 1) :
        LET f == NextEntry
            rel == RelativePathOf(f, re)
        IN  /\ idx' = idx + 1
            /\ relative_path' = rel
            /\ found_files_count' = found_files_count + 1
            /\ env' = Append(env, [Outcome(re, d.decode, "not called", {})
                                      EXCEPT !.decode_at = d.at])
            /\ calls' = Append(calls, Call("Image.open", file_path(f), 0, 0, 0))
            /\ img' = IF d.at = "open" THEN img ELSE Image(f, 1, FALSE)
            /\ processed_items_count' =
                  IF d.at \in {"none", "copy"} THEN processed_items_count + 1
                  ELSE processed_items_count
            /\ CASE d.decode = "ok" ->
                     /\ log' = log \o RelpathLog(f, re)
                     /\ Yield(Item(Metadata(f, rel, "image", 1), Image(f, 1, TRUE)),
                              idx + 1, 1, "yield_image")
                 [] d.decode = "UnidentifiedImageError" ->
                     /\ log' = log \o RelpathLog(f, re)
                                   \o << LogRecord("error", "unidentified image", file_path(f), 0) >>
                     /\ Yield(FailedItem, idx + 1, 1, "yield_image_err")
                 [] OTHER ->
                     /\ log' = log \o RelpathLog(f, re)
                                   \o << LogRecord("error", "image read error", file_path(f), 0) >>
                     /\ Yield(FailedItem, idx + 1, 1, "yield_image_err")
    /\ UNCHANGED <<main_vars, fn_vars, images, page_img, walk_error>>
    /\ UNCHANGED <<input_dir, scan, earlier, changed, platform, walk, config, total_pages, page_num>>

\* line 76 and, when close raises, lines 80-82
ResumeImage ==
    /\ ctl = "generator"
    /\ pc = "yield_image"
    /\ \E close \in CloseChoices(idx) :
        /\ env' = [env EXCEPT ![idx].close = close]
        /\ calls' = Append(calls, Call("close", file_path(walk[idx]), 0, 0, 0))
        /\ IF close = "ok"
           THEN /\ pc' = "walk"
                /\ img' = None
                /\ UNCHANGED <<ctl, out, origin, log>>
           ELSE /\ log' = Append(log, LogRecord("error", "image read error",
                                                file_path(walk[idx]), 0))
                /\ Yield(FailedItem, idx, 1, "yield_image_err")
                /\ UNCHANGED img
    /\ UNCHANGED <<main_vars, fn_vars, images, page_img, walk_error>>
    /\ UNCHANGED <<input_dir, scan, earlier, changed, platform, walk, config, idx, relative_path, total_pages, page_num,
                   found_files_count, processed_items_count>>

\* resumed after line 79 or 82: on to the next entry
ResumeImageError ==
    /\ ctl = "generator"
    /\ pc = "yield_image_err"
    /\ pc' = "walk"
    /\ UNCHANGED <<main_vars, fn_vars, images, page_img, walk_error>>
    /\ UNCHANGED <<input_dir, scan, earlier, changed, platform, walk, config, ctl, idx, relative_path, total_pages, page_num, img,
                   found_files_count, processed_items_count, env, out, origin, calls, log>>

\* lines 138-148: the log record of the handler that catches a probe error
ProbeErrorLog(f, rel, error) ==
    CASE error = "PDFPageCountError" -> LogRecord("error", "pdf info error", rel, 0)
      [] error = "FileNotFoundError" -> LogRecord("error", "pdf not found", file_path(f), 0)
      [] OTHER                       -> LogRecord("error", "pdf unexpected error", rel, 0)

\* ProbeFailed as it would be without the handlers of lines 138-148: the
\* error reaches the handler of the whole scan, which ends the stream
ProbeFailed_EndsScan(f, re, rel, error) ==
    /\ log' = log \o RelpathLog(f, re)
                  \o << LogRecord("error", "scan error", input_dir_abs, 0) >>
    /\ pc' = "done"
    /\ ctl' = "consumer"
    /\ total_pages' = 0
    /\ UNCHANGED <<page_num, out, origin>>

\* ProbeFailed as it would be if the file were passed over without an item
ProbeFailed_SkipsSilently(f, re, rel, error) ==
    /\ log' = log \o RelpathLog(f, re) \o << ProbeErrorLog(f, rel, error) >>
    /\ total_pages' = 0
    /\ pc' = "walk"
    /\ UNCHANGED <<page_num, ctl, out, origin>>

\* ProbeFailed as it would be if the handlers yielded without logging
ProbeFailed_Unlogged(f, re, rel, error) ==
    /\ log' = log \o RelpathLog(f, re)
    /\ Yield(FailedItem, idx + 1, 0, "yield_pdf_err")
    /\ total_pages' = 0
    /\ UNCHANGED page_num

\* lines 138-148: the probe raised; one item for the whole file
ProbeFailed(f, re, rel, error) ==
    /\ log' = log \o RelpathLog(f, re) \o << ProbeErrorLog(f, rel, error) >>
    /\ Yield(FailedItem, idx + 1, 0, "yield_pdf_err")
    /\ total_pages' = 0
    /\ UNCHANGED page_num

\* lines 93-96: no page to process; continue with the next entry
ProbeEmpty(f, re, rel, pages) ==
    /\ log' = log \o RelpathLog(f, re)
                  \o << LogRecord("warning", "pdf without pages", rel, 0) >>
    /\ total_pages' = pages
    /\ pc' = "walk"
    /\ UNCHANGED <<page_num, ctl, out, origin>>

\* lines 93-101: into the page loop
ProbeOk(f, re, rel, pages) ==
    /\ log' = log \o RelpathLog(f, re)
                  \o << LogRecord("info", "pdf pages", rel, 0) >>
    /\ total_pages' = pages
    /\ pc' = "render"
    /\ page_num' = 1
    /\ UNCHANGED <<ctl, out, origin>>

\* lines 85-98 and 138-148, an entry with the PDF extension: the page-count probe
NextPdf ==
    /\ ctl = "generator"
    /\ pc = "walk"
    /\ HasNext
    /\ file_extension(NextEntry.name) \notin SUPPORTED_IMAGE_EXT
    /\ file_extension(NextEntry.name) \in SUPPORTED_PDF_EXT
    /\ \E re \in RelpathChoices(idx + 1), p \in ProbeChoices(idx + 1) :
        LET f == NextEntry
            rel == RelativePathOf(f, re)
            pages == DictGet(p.info, "Pages", 0)
        IN  /\ idx' = idx + 1
            /\ relative_path' = rel
            /\ found_files_count' = found_files_count + 1
            /\ env' = Append(env, Outcome(re, "not called", p.probe, p.info))
            /\ calls' = Append(calls, Call("pdfinfo_from_path", file_path(f), 0, 0, 0))
            /\ CASE p.probe # "ok" -> ProbeFailed(f, re, rel, p.probe)
                 [] p.probe = "ok" /\ pages <= 0 -> ProbeEmpty(f, re, rel, pages)
                 [] OTHER -> ProbeOk(f, re, rel, pages)
    /\ UNCHANGED <<main_vars, fn_vars, images, page_img, walk_error>>
    /\ UNCHANGED <<input_dir, scan, earlier, changed, platform, walk, config, img, processed_items_count>>

\* lines 128-136: what the page loop yields for a page that did not render
PageFailedItem(f, page) == FailedItem

\* line 102, written before every call of convert_from_path
PageLog == LogRecord("info", "page conversion", relative_path, page_num)

\* lines 102-136: one turn of the page loop, up to its yield
RenderPage ==
    /\ ctl = "generator"
    /\ pc = "render"
    /\ \E r \in RenderChoices(idx, page_num) :
        LET f == walk[idx]
        IN  /\ env' = [env EXCEPT ![idx].render = Append(@, r)]
            /\ calls' = Append(calls, RenderCall(f, page_num))
            /\ CASE r = "ok" ->
                     /\ images' = << Image(f, page_num, FALSE) >>
                     /\ page_img' = Image(f, page_num, FALSE)
                     /\ processed_items_count' = processed_items_count + 1
                     /\ Yield(Item(Metadata(f, relative_path, "pdf_page", page_num),
                                   Image(f, page_num, FALSE)),
                              idx, page_num, "yield_page")
                     /\ log' = Append(log, PageLog)
                 [] r = "empty" ->
                     /\ images' = <<>>
                     /\ page_img' = None
                     /\ log' = log \o << PageLog,
                                          LogRecord("warning", "page not converted",
                                                    relative_path, page_num) >>
                     /\ Yield(PageFailedItem(f, page_num), idx, page_num, "yield_page_err")
                     /\ UNCHANGED processed_items_count
                 [] OTHER ->
                     /\ page_img' = None
                     /\ UNCHANGED images
                     /\ log' = log \o << PageLog,
                                          LogRecord("error", "page conversion error",
                                                    relative_path, page_num) >>
                     /\ Yield(PageFailedItem(f, page_num), idx, page_num, "yield_page_err")
                     /\ UNCHANGED processed_items_count
    /\ UNCHANGED <<main_vars, fn_vars, walk_error>>
    /\ UNCHANGED <<input_dir, scan, earlier, changed, platform, walk, config, idx, relative_path, total_pages, page_num, img,
                   found_files_count>>

\* ResumePage as it would be if a page that failed were rendered once more
ResumePage_RetriesFailedPage ==
    /\ ctl = "generator"
    /\ pc \in {"yield_page", "yield_page_err"}
    /\ IF pc = "yield_page_err" /\ Len(env[idx].render) = page_num
       THEN /\ pc' = "render"
            /\ UNCHANGED page_num
       ELSE IF page_num < total_pages
       THEN /\ page_num' = page_num + 1
            /\ pc' = "render"
       ELSE /\ pc' = "walk"
            /\ UNCHANGED page_num
    /\ UNCHANGED <<main_vars, fn_vars, images, page_img, walk_error>>
    /\ UNCHANGED <<input_dir, scan, earlier, changed, platform, walk, config, ctl, idx, relative_path, total_pages, img,
                   found_files_count, processed_items_count, env, out, origin, calls, log>>

\* ResumePage as it would be if a failed page ended the page loop
ResumePage_StopAtFailedPage ==
    /\ ctl = "generator"
    /\ pc \in {"yield_page", "yield_page_err"}
    /\ IF page_num < total_pages /\ pc = "yield_page"
       THEN /\ page_num' = page_num + 1
            /\ pc' = "render"
       ELSE /\ pc' = "walk"
            /\ UNCHANGED page_num
    /\ UNCHANGED <<main_vars, fn_vars, images, page_img, walk_error>>
    /\ UNCHANGED <<input_dir, scan, earlier, changed, platform, walk, config, ctl, idx, relative_path, total_pages, img,
                   found_files_count, processed_items_count, env, out, origin, calls, log>>

\* line 101, resumed after a page's yield: the next page, or the next entry
ResumePage ==
    /\ ctl = "generator"
    /\ pc \in {"yield_page", "yield_page_err"}
    /\ IF page_num < total_pages
       THEN /\ page_num' = page_num + 1
            /\ pc' = "render"
       ELSE /\ pc' = "walk"
            /\ UNCHANGED page_num
    /\ UNCHANGED <<main_vars, fn_vars, images, page_img, walk_error>>
    /\ UNCHANGED <<input_dir, scan, earlier, changed, platform, walk, config, ctl, idx, relative_path, total_pages, img,
                   found_files_count, processed_items_count, env, out, origin, calls, log>>

\* resumed after line 141, 144 or 148: on to the next entry
ResumePdfError ==
    /\ ctl = "generator"
    /\ pc = "yield_pdf_err"
    /\ pc' = "walk"
    /\ UNCHANGED <<main_vars, fn_vars, images, page_img, walk_error>>
    /\ UNCHANGED <<input_dir, scan, earlier, changed, platform, walk, config, ctl, idx, relative_path, total_pages, page_num, img,
                   found_files_count, processed_items_count, env, out, origin, calls, log>>

\* lines 47-57 and 150-153, any other entry: nothing but the relative path
NextOther ==
    /\ ctl = "generator"
    /\ pc = "walk"
    /\ HasNext
    /\ file_extension(NextEntry.name) \notin SUPPORTED_IMAGE_EXT
    /\ file_extension(NextEntry.name) \notin SUPPORTED_PDF_EXT
    /\ \E re \in RelpathChoices(idx + 1) :
        /\ idx' = idx + 1
        /\ relative_path' = RelativePathOf(NextEntry, re)
        /\ env' = Append(env, Outcome(re, "not called", "not called", {}))
        /\ log' = log \o RelpathLog(NextEntry, re)
    /\ UNCHANGED <<main_vars, fn_vars, images, page_img, walk_error>>
    /\ UNCHANGED <<input_dir, scan, earlier, changed, platform, walk, config, ctl, pc, total_pages, page_num, img,
                   found_files_count, processed_items_count, out, origin, calls>>

\* what ends the iteration of os.walk: StopIteration ("none") or an exception.
\* os.walk swallows the errors of listing a directory (onerror is None), so
\* that a root that is missing or unreadable gives an empty walk.
WalkErrors == {"FileNotFoundError", "Exception"}
WalkEndChoices ==
    IF scan = 2 THEN { earlier.walk_error }
    ELSE IF input_dir = "directory" THEN {"none"} \cup WalkErrors ELSE {"none"}

\* lines 155-158: the log record of the handler of the whole scan
WalkErrorLog(error) ==
    IF error = "FileNotFoundError"
    THEN LogRecord("error", "input directory not found", input_dir_abs, 0)
    ELSE LogRecord("error", "scan error", input_dir_abs, 0)

\* line 160
EndLog == LogRecord("info", "scan finished", input_dir_abs, 0)

\* line 160: the listing is exhausted and the generator returns
EndWalk ==
    /\ ctl = "generator"
    /\ pc = "walk"
    /\ ~HasNext
    /\ "none" \in WalkEndChoices
    /\ pc' = "done"
    /\ ctl' = "consumer"
    /\ log' = Append(log, EndLog)
    /\ UNCHANGED <<main_vars, fn_vars, images, page_img, walk_error>>
    /\ UNCHANGED <<input_dir, scan, earlier, changed, platform, walk, config, idx, relative_path, total_pages, page_num, img,
                   found_files_count, processed_items_count, env, out, origin, calls>>

\* WalkEnd as it would be without the handlers of lines 155-158
WalkEnd_Propagates(error) ==
    /\ pc' = "raised"
    /\ ctl' = "consumer"
    /\ UNCHANGED <<log, out, origin>>

\* lines 155-160: the handler logs, the generator returns; nothing is yielded
WalkEnd(error) ==
    /\ log' = log \o << WalkErrorLog(error), EndLog >>
    /\ pc' = "done"
    /\ ctl' = "consumer"
    /\ UNCHANGED <<out, origin>>

\* lines 46-47 and 155-160: os.walk raises instead of listing on
WalkError ==
    /\ ctl = "generator"
    /\ pc = "walk"
    /\ ~HasNext
    /\ walk_error = "none"
    /\ \E error \in WalkEndChoices \ {"none"} :
        /\ walk_error' = error
        /\ WalkEnd(error)
    /\ UNCHANGED <<main_vars, fn_vars, images, page_img>>
    /\ UNCHANGED <<input_dir, scan, earlier, changed, platform, walk, config, idx, relative_path, total_pages, page_num, img,
                   found_files_count, processed_items_count, env, calls>>

-----------------------------------------------------------------------------
(* Specification *)

\* input_dir_abs is a directory, or is missing, or cannot be listed
Roots == {"directory", "missing", "unreadable"}

\* Nothing is known of a first call while it runs
NoEarlier == [env |-> <<>>, out |-> <<>>, origin |-> <<>>, calls |-> <<>>, walk_error |-> "none"]

Init ==
    /\ input_dir \in Roots
    /\ scan = 1
    /\ earlier = NoEarlier
    /\ changed = 0
    /\ platform = "windows"
    /\ walk \in Walks
    /\ input_dir # "directory" => walk = <<>>
    /\ config = TestConfig
    /\ ctl = "consumer"
    /\ pc = "start"
    /\ idx = 0
    /\ relative_path = <<>>
    /\ total_pages = 0
    /\ page_num = 0
    /\ img = None
    /\ found_files_count = 0
    /\ processed_items_count = 0
    /\ env = <<>>
    /\ out = <<>>
    /\ origin = <<>>
    /\ calls = <<>>
    /\ log = <<>>
    /\ images = <<>>
    /\ page_img = None
    /\ walk_error = "none"
    /\ total_items_yielded = 0
    /\ processed_count = 0
    /\ error_count = 0
    /\ stages = <<>>
    /\ exit_code = NotExited
    /\ output_dir = EmptyDir
    /\ call = NoCall
    /\ ret = NoCall

\* The steps of the generator
Generator ==
    \/ Start
    \/ NextImage
    \/ ResumeImage
    \/ ResumeImageError
    \/ NextPdf
    \/ RenderPage
    \/ ResumePage
    \/ ResumePdfError
    \/ NextOther
    \/ EndWalk
    \/ WalkError

\* A consumer that pulls until the stream ends
Next ==
    \/ Pull
    \/ Generator

Spec == Init /\ [][Next]_vars

-----------------------------------------------------------------------------
(* Vocabulary of the properties *)

Done == pc = "done"

\* The generator has left entry i behind
Finished(i) == idx > i \/ (idx = i /\ pc \in {"walk", "done"})

IsOk(item) == item.metadata # None /\ item.image # None

\* The positions in out of the items yielded while entry i was the current one
Positions(i) ==
    LET OfEntry(k) == origin[k].file = i
    IN  SelectSeq([k \in 1..Len(out) |-> k], OfEntry)

\* The render calls made on entry i, in order
RenderCalls(i) ==
    LET path == file_path(walk[i])
        OfEntry(c) == c.op = "convert_from_path" /\ c.path = path
    IN  SelectSeq(calls, OfEntry)

\* Entry i was probed as a PDF and the probe reported n pages
Probed(i, n) == env[i].probe = "ok" /\ DictGet(env[i].info, "Pages", 0) = n
ProbedPages(i) == DictGet(env[i].info, "Pages", 0)

-----------------------------------------------------------------------------
(* C1: for a PDF whose probe reports N >= 1 pages, whichever pages fail to  *)
(* render (an exception or an empty list), the stream yields one item per   *)
(* render attempted, the k-th for page k, Ok exactly when page k rendered;  *)
(* the renders are attempted for pages 1, 2, ... in order whatever failed   *)
(* before, and once the file is left behind there are exactly N items.      *)
C1_PagesInOrderDespiteFailures ==
    \A i \in 1..Len(env) :
        (env[i].probe = "ok" /\ ProbedPages(i) >= 1) =>
            LET pos == Positions(i)
                N == ProbedPages(i)
            IN  /\ Len(pos) = Len(env[i].render)
                /\ Len(pos) <= N
                /\ \A k \in 1..Len(pos) :
                      /\ origin[pos[k]].page = k
                      /\ k > 1 => pos[k] = pos[k - 1] + 1
                      /\ IsOk(out[pos[k]]) <=> env[i].render[k] = "ok"
                      /\ IsOk(out[pos[k]]) => out[pos[k]].metadata.page_num = k
                /\ Len(RenderCalls(i)) = Len(pos)
                /\ \A k \in 1..Len(pos) : RenderCalls(i)[k].first_page = k
                /\ Finished(i) => Len(pos) = N

\* a PDF of at least two pages left behind, a page of which failed and was
\* followed by a page that rendered
C1_Witness ==
    \E i \in 1..Len(env) :
        /\ env[i].probe = "ok" /\ ProbedPages(i) >= 2 /\ Finished(i)
        /\ \E k \in 1..(ProbedPages(i) - 1) :
              /\ env[i].render[k] # "ok"
              /\ env[i].render[k + 1] = "ok"
              /\ IsOk(out[Positions(i)[k + 1]])

-----------------------------------------------------------------------------
(* C2, as claimed: when the render of page k of a PDF raises, the item      *)
(* yielded for that page carries page k's descriptor (its relative_path     *)
(* and page_num = k).                                                       *)
C2_FailedPageCarriesDescriptor ==
    \A n \in 1..Len(out) :
        LET i == origin[n].file
            k == origin[n].page
        IN  (env[i].probe = "ok" /\ k >= 1 /\ env[i].render[k] = "raise") =>
                /\ out[n].metadata # None
                /\ out[n].metadata.relative_path = RelativePathOf(walk[i], env[i].relpath_error)
                /\ out[n].metadata.page_num = k

-----------------------------------------------------------------------------
\* Entry i was taken as an image (lines 60-82) or as a PDF (lines 85-148)
TakenAsImage(i) == env[i].decode # "not called"
TakenAsPdf(i) == env[i].probe # "not called"

(* C3, as claimed (P1): every entry with a supported extension yields       *)
(* exactly one item per page, whatever fails: an image exactly one item, a  *)
(* PDF whose probe reports N pages exactly N items (a PDF whose probe       *)
(* raises, its one file-level item), each entry's items together and the    *)
(* entries in traversal order.                                              *)
C3_OneItemPerPage ==
    /\ \A i \in 1..Len(env) :
          Finished(i) =>
              /\ TakenAsImage(i) => Len(Positions(i)) = 1
              /\ (TakenAsPdf(i) /\ env[i].probe = "ok") => Len(Positions(i)) = ProbedPages(i)
              /\ (TakenAsPdf(i) /\ env[i].probe # "ok") => Len(Positions(i)) = 1
    /\ \A n \in 1..(Len(out) - 1) :
          \/ origin[n].file < origin[n + 1].file
          \/ origin[n].file = origin[n + 1].file /\ origin[n].page < origin[n + 1].page

-----------------------------------------------------------------------------
(* C4, as claimed: when the probe of a PDF reports zero pages, or no page   *)
(* count, the stream emits exactly one Failed item for that file.           *)
C4_ZeroPagesYieldOneFailed ==
    \A i \in 1..Len(env) :
        (TakenAsPdf(i) /\ Probed(i, 0)) =>
            /\ Len(Positions(i)) = 1
            /\ ~IsOk(out[Positions(i)[1]])

-----------------------------------------------------------------------------
(* C5: when the probe of a PDF raises, whatever the exception, the stream   *)
(* yields exactly one Failed item for that file, never calls the render     *)
(* operation on it, and goes on with the next entry: the scan ends only     *)
(* when every entry of the listing was visited.                             *)
C5_ProbeErrorYieldsOneFailed ==
    /\ \A i \in 1..Len(env) :
          (TakenAsPdf(i) /\ env[i].probe \in ProbeErrors) =>
              /\ Len(Positions(i)) = 1
              /\ out[Positions(i)[1]] = [metadata |-> None, image |-> None]
              /\ RenderCalls(i) = <<>>
              /\ env[i].render = <<>>
              /\ (idx = i) => pc \in {"yield_pdf_err", "walk", "done"}
    /\ Done => Len(env) = Len(walk)

\* a PDF whose probe raised, and an entry after it that was yielded
C5_Witness ==
    /\ Done
    /\ \E i \in 1..Len(env) :
          /\ TakenAsPdf(i) /\ env[i].probe \in ProbeErrors
          /\ \E n \in 1..Len(out) : origin[n].file > i /\ IsOk(out[n])

-----------------------------------------------------------------------------
(* C6, as claimed: an image file yields exactly one item, whether it        *)
(* decodes or not, and nothing done for it afterwards, closing it after the *)
(* consumer resumes the stream included, yields a second one.               *)
C6_ImageYieldsOneItem ==
    \A i \in 1..Len(env) :
        TakenAsImage(i) => Len(Positions(i)) = 1

-----------------------------------------------------------------------------
(* C8: for a PDF whose probe reports M pages the render operation is called *)
(* once for each page p of 1..M, in order, with first_page = last_page = p  *)
(* and with the dpi of config['pdf_dpi'], 300 when the key is absent; no    *)
(* call ever covers more than one page, and a file that was not probed      *)
(* with success is never rendered.                                          *)
C8_OneRenderCallPerPage ==
    /\ \A n \in 1..Len(calls) :
          calls[n].op = "convert_from_path" =>
              /\ calls[n].first_page = calls[n].last_page
              /\ calls[n].first_page >= 1
              /\ config = {} => calls[n].dpi = 300
              /\ \A kv \in config : kv[1] = "pdf_dpi" => calls[n].dpi = kv[2]
    /\ \A i \in 1..Len(env) :
          LET rc == RenderCalls(i)
          IN  /\ \A k \in 1..Len(rc) : rc[k].first_page = k
              /\ env[i].probe # "ok" => rc = <<>>
              /\ env[i].probe = "ok" => Len(rc) <= ProbedPages(i)
              /\ (env[i].probe = "ok" /\ Finished(i)) => Len(rc) = ProbedPages(i)

\* a 3-page PDF rendered to its end under a config without pdf_dpi
C8_Witness ==
    /\ config = {}
    /\ \E i \in 1..Len(env) :
          /\ Probed(i, 3) /\ Finished(i)
          /\ Len(RenderCalls(i)) = 3
          /\ RenderCalls(i)[3].last_page = 3
          /\ RenderCalls(i)[3].dpi = 300

-----------------------------------------------------------------------------
(* Classification by extension: the names of a second specification, whose *)
(* listings hold one entry of any of these names, or the three entries of  *)
(* the scenario of P5.                                                     *)

\* names whose lower-cased extension is an image extension
ImageNames ==
    { <<"a",".","j","p","g">>,
      <<"a",".","J","P","E","G">>,
      <<"a",".","P","n","g">>,
      <<"a",".","p","n","g">>,
      <<"a",".","b","m","p">>,
      <<"a",".","T","I","F","F">>,
      <<"a",".","t","i","f">>,
      <<"a",".","b",".","p","n","g">> }
\* names whose lower-cased extension is .pdf
PdfNames ==
    { <<"a",".","P","D","F">>,
      <<"b",".","p","d","f">> }
\* names with another extension, or with none
OtherNames ==
    { <<"c",".","t","x","t">>,
      <<"p","n","g">>,
      <<".","p","n","g">>,
      <<".",".","p","n","g">>,
      <<"a",".","p","n","g",".","t","x","t">>,
      <<"a",".","p","n","g","x">>,
      <<"a",".","j","p">>,
      <<"a",".">>,
      <<"a",".","g","i","f">>,
      <<"a",".","p","d","f",".","b","a","k">> }

ScenarioTxt == Entry(RootDir, <<"c",".","t","x","t">>, "other", 0)
ScenarioPng == Entry(RootDir, <<"a",".","p","n","g">>, "image", 0)
ScenarioPdf == Entry(RootDir, <<"b",".","p","d","f">>, "pdf", MaxPages)

WalksExt ==
    { << Entry(RootDir, n, "image", 0) >> : n \in ImageNames }
    \cup { << Entry(RootDir, n, "pdf", MaxPages) >> : n \in PdfNames }
    \cup { << Entry(RootDir, n, "other", 0) >> : n \in OtherNames }
    \cup { << ScenarioTxt, ScenarioPng, ScenarioPdf >>,
           << ScenarioPdf, ScenarioTxt, ScenarioPng >>,
           << ScenarioPng, ScenarioPdf, ScenarioTxt >> }

InitExt ==
    /\ input_dir = "directory"
    /\ scan = 1
    /\ earlier = NoEarlier
    /\ changed = 0
    /\ platform = "windows"
    /\ walk \in WalksExt
    /\ config \in Configs
    /\ ctl = "consumer"
    /\ pc = "start"
    /\ idx = 0
    /\ relative_path = <<>>
    /\ total_pages = 0
    /\ page_num = 0
    /\ img = None
    /\ found_files_count = 0
    /\ processed_items_count = 0
    /\ env = <<>>
    /\ out = <<>>
    /\ origin = <<>>
    /\ calls = <<>>
    /\ log = <<>>
    /\ images = <<>>
    /\ page_img = None
    /\ walk_error = "none"
    /\ total_items_yielded = 0
    /\ processed_count = 0
    /\ error_count = 0
    /\ stages = <<>>
    /\ exit_code = NotExited
    /\ output_dir = EmptyDir
    /\ call = NoCall
    /\ ret = NoCall

SpecExt == InitExt /\ [][Next]_vars

\* The listing is the directory of P5: one .txt, one .png, one .pdf
IsScenarioP5 ==
    /\ Len(walk) = 3
    /\ { walk[k] : k \in 1..3 } = { ScenarioTxt, ScenarioPng, ScenarioPdf }

\* The log records at error level about entry i
ErrorLogs(i) ==
    { n \in 1..Len(log) :
        /\ log[n].level = "error"
        /\ log[n].path \in { file_path(walk[i]), << walk[i].name >> } }

(* C9, as claimed: a file yields items if and only if its lower-cased       *)
(* extension is one of .jpg .jpeg .png .bmp .tiff .tif .pdf; any other file *)
(* yields nothing and has no log record at error level; the directory with  *)
(* one .txt, one .png and one 2-page .pdf yields exactly 3 items.           *)
C9_ItemsIffSupportedExtension ==
    /\ \A i \in 1..Len(env) :
          /\ Finished(i) =>
                (Positions(i) # <<>> <=> walk[i].name \in ImageNames \cup PdfNames)
          /\ walk[i].name \in OtherNames => ErrorLogs(i) = {}
    /\ (IsScenarioP5 /\ Done /\ \E i \in 1..3 : Probed(i, 2)) => Len(out) = 3

(* C9, amended: files are classified by their lower-cased extension alone.  *)
(* A file with an image extension is decoded and yields at least one item;  *)
(* a file with the extension .pdf is probed and yields items unless the     *)
(* probe reports no page, and then it yields none; every other file is      *)
(* neither decoded nor probed, yields no item and has no log record at      *)
(* error level except the one of a failed relative-path computation.  The   *)
(* directory with one .txt, one .png and one 2-page .pdf yields 3 items,    *)
(* and a fourth, (None, None), when closing the .png raises.                *)
C9_ClassifiedByExtension ==
    /\ \A i \in 1..Len(env) :
          /\ walk[i].name \in ImageNames =>
                /\ TakenAsImage(i) /\ ~TakenAsPdf(i)
                /\ Positions(i) # <<>>
          /\ walk[i].name \in PdfNames =>
                /\ TakenAsPdf(i) /\ ~TakenAsImage(i)
                /\ Finished(i) =>
                      (Positions(i) = <<>> <=> (env[i].probe = "ok" /\ ProbedPages(i) <= 0))
          /\ walk[i].name \in OtherNames =>
                /\ ~TakenAsImage(i) /\ ~TakenAsPdf(i)
                /\ Positions(i) = <<>>
                /\ \A n \in 1..Len(calls) : calls[n].path # file_path(walk[i])
                /\ \A n \in ErrorLogs(i) : log[n].msg = "relpath"
          /\ walk[i].name \in ImageNames \cup PdfNames \cup OtherNames
    /\ (IsScenarioP5 /\ Done /\ \E i \in 1..3 : Probed(i, 2)) =>
          Len(out) = 3 + (IF \E i \in 1..3 : env[i].close = "raise" THEN 1 ELSE 0)

\* the directory of P5 scanned to its end with nothing failing: 3 items
C9_Witness ==
    /\ IsScenarioP5 /\ Done
    /\ \E i \in 1..3 : Probed(i, 2)
    /\ \A i \in 1..3 : env[i].close # "raise" /\ ~env[i].relpath_error
    /\ Len(out) = 3
    /\ \A n \in 1..3 : IsOk(out[n])

-----------------------------------------------------------------------------
(* C10, as claimed: no two Ok items of one scan share the pair              *)
(* (relative_path, page_num), the bare-filename fallback of a failed        *)
(* relative-path computation included.                                      *)
C10_UniqueDescriptors ==
    \A m, n \in 1..Len(out) :
        (m < n /\ IsOk(out[m]) /\ IsOk(out[n])) =>
            \/ out[m].metadata.relative_path # out[n].metadata.relative_path
            \/ out[m].metadata.page_num # out[n].metadata.page_num

-----------------------------------------------------------------------------
(* Two calls on one directory: a third specification, in which the caller  *)
(* calls iterate_document_items a second time once the first stream has    *)
(* ended.  The tree is the same; the external operations behave on every   *)
(* entry as in the first call, except on the entry changed (Replayed).     *)

\* iterate_document_items(input_dir_abs, config), called again: a new
\* generator, suspended before its first line.  Its locals have no value
\* yet; the counters and the walk get theirs when the prologue runs (lines
\* 41, 42 and 46), and until then the model's variables keep what the
\* first call left in them.
Rescan ==
    /\ scan = 1
    /\ pc = "done"
    /\ scan' = 2
    /\ earlier' = [env |-> env, out |-> out, origin |-> origin, calls |-> calls,
                   walk_error |-> walk_error]
    /\ changed' \in 0..Len(walk)
    /\ ctl' = "consumer"
    /\ pc' = "start"
    /\ relative_path' = <<>>
    /\ total_pages' = 0
    /\ page_num' = 0
    /\ img' = None
    /\ env' = <<>>
    /\ out' = <<>>
    /\ origin' = <<>>
    /\ calls' = <<>>
    /\ log' = <<>>
    /\ images' = <<>>
    /\ page_img' = None
    /\ walk_error' = "none"
    /\ UNCHANGED <<idx, found_files_count, processed_items_count>>
    /\ UNCHANGED <<input_dir, platform, walk, config, main_vars, fn_vars>>

\* Two listings: an image before a PDF, and two PDFs around another file
WalksIso ==
    { << Entry(RootDir, NameImage, "image", 0),
         Entry(SubDir, NamePdf, "pdf", MaxPagesIso) >>,
      << Entry(RootDir, NamePdf, "pdf", MaxPagesIso),
         Entry(RootDir, NameOther, "other", 0),
         Entry(SubDir, NamePdf, "pdf", MaxPagesSub) >> }

InitIso ==
    /\ input_dir = "directory"
    /\ scan = 1
    /\ earlier = NoEarlier
    /\ changed = 0
    /\ platform = "posix"
    /\ walk \in WalksIso
    /\ config = {}
    /\ ctl = "consumer"
    /\ pc = "start"
    /\ idx = 0
    /\ relative_path = <<>>
    /\ total_pages = 0
    /\ page_num = 0
    /\ img = None
    /\ found_files_count = 0
    /\ processed_items_count = 0
    /\ env = <<>>
    /\ out = <<>>
    /\ origin = <<>>
    /\ calls = <<>>
    /\ log = <<>>
    /\ images = <<>>
    /\ page_img = None
    /\ walk_error = "none"
    /\ total_items_yielded = 0
    /\ processed_count = 0
    /\ error_count = 0
    /\ stages = <<>>
    /\ exit_code = NotExited
    /\ output_dir = EmptyDir
    /\ call = NoCall
    /\ ret = NoCall

NextIso ==
    \/ Next
    \/ Rescan

SpecIso == InitIso /\ [][NextIso]_vars

\* The items of a stream yielded for the entries other than entry F, each
\* with its entry, in the order of the stream
ItemsOfOthers(o, g, F) ==
    LET Other(k) == g[k].file # F
        sel == SelectSeq([k \in 1..Len(o) |-> k], Other)
    IN  [k \in 1..Len(sel) |-> [file |-> g[sel[k]].file, item |-> o[sel[k]]]]

\* The items of a stream yielded for entry i
ItemsOfEntry(o, g, i) ==
    LET Mine(k) == g[k].file = i
        sel == SelectSeq([k \in 1..Len(o) |-> k], Mine)
    IN  [k \in 1..Len(sel) |-> o[sel[k]]]

\* Nothing failed on entry i, a PDF with pages
ValidPdf(i) ==
    /\ env[i].probe = "ok"
    /\ ProbedPages(i) >= 1
    /\ \A k \in 1..Len(env[i].render) : env[i].render[k] = "ok"

(* C7: two scans of one tree, in which the external operations behave       *)
(* alike on every file but one file F (its decode, probe or page renders    *)
(* fail differently), yield the same items, in the same order, for all the  *)
(* other files; in particular when F is a PDF whose probe raises, F has one *)
(* Failed item and every PDF on which nothing fails has all its pages, each *)
(* as an Ok item.                                                           *)
C7_OtherFilesUnaffected ==
    (scan = 2 /\ Done) =>
        /\ ItemsOfOthers(out, origin, changed)
              = ItemsOfOthers(earlier.out, earlier.origin, changed)
        /\ \A i \in 1..Len(walk) :
              i # changed =>
                  /\ i <= Len(env)
                  /\ ItemsOfEntry(out, origin, i) = ItemsOfEntry(earlier.out, earlier.origin, i)
        /\ (changed # 0 /\ changed <= Len(env) /\ env[changed].probe \in ProbeErrors) =>
              /\ ItemsOfEntry(out, origin, changed) = << [metadata |-> None, image |-> None] >>
              /\ \A i \in 1..Len(env) :
                    ValidPdf(i) =>
                        /\ Len(ItemsOfEntry(out, origin, i)) = ProbedPages(i)
                        /\ \A k \in 1..ProbedPages(i) :
                              /\ IsOk(ItemsOfEntry(out, origin, i)[k])
                              /\ ItemsOfEntry(out, origin, i)[k].metadata.page_num = k

\* a second scan in which the first PDF, valid before, has a probe that
\* raises, while a later PDF is valid and yields its page in both scans
C7_Witness ==
    /\ scan = 2 /\ Done
    /\ changed # 0
    /\ earlier.env[changed].probe = "ok"
    /\ earlier.env[changed].render = <<"ok", "ok">>
    /\ env[changed].probe \in ProbeErrors
    /\ \E i \in 1..Len(env) :
          /\ i > changed
          /\ ValidPdf(i)
          /\ ItemsOfEntry(out, origin, i) # <<>>
          /\ ItemsOfEntry(out, origin, i) = ItemsOfEntry(earlier.out, earlier.origin, i)

-----------------------------------------------------------------------------
(* C11: when the input directory does not exist or cannot be listed, the   *)
(* stream yields no item, calls no external operation and ends normally;   *)
(* no exception of the scan ever reaches the consumer.                     *)
C11_InaccessibleRootEndsQuietly ==
    /\ pc # "raised"
    /\ input_dir # "directory" =>
          /\ out = <<>>
          /\ calls = <<>>
          /\ env = <<>>
          /\ pc \in {"start", "walk", "done"}
          /\ Done => (ctl = "consumer" /\ log = << StartLog, EndLog >>)
    /\ (walk = <<>> /\ walk_error # "none") =>
          /\ out = <<>>
          /\ calls = <<>>
          /\ Done /\ ctl = "consumer"
          /\ log = << StartLog, WalkErrorLog(walk_error), EndLog >>

\* a missing input directory, scanned to the end of the stream
C11_Witness ==
    /\ input_dir = "missing"
    /\ Done
    /\ out = <<>>

-----------------------------------------------------------------------------
(* C12: a second call on the unchanged directory, with the same config and *)
(* with the external operations behaving as in the first call, walks the   *)
(* listing again, invokes every operation again and yields an equal        *)
(* sequence of items in the same order; nothing of the first call is       *)
(* reused: the walk starts at the first entry again and the counter of the *)
(* files found counts the files of the second call alone.                  *)
IsPrefix(s, t) == Len(s) <= Len(t) /\ \A k \in 1..Len(s) : s[k] = t[k]

C12_SecondCallWalksAgain ==
    (scan = 2 /\ changed = 0) =>
        /\ IsPrefix(out, earlier.out)
        /\ IsPrefix(origin, earlier.origin)
        /\ IsPrefix(calls, earlier.calls)
        /\ Done => /\ out = earlier.out
                   /\ origin = earlier.origin
                   /\ calls = earlier.calls
                   /\ env = earlier.env
                   /\ walk_error = earlier.walk_error
                   /\ found_files_count =
                         Cardinality({ i \in 1..Len(env) : TakenAsImage(i) \/ TakenAsPdf(i) })

\* a second call that has ended, after yielding again an Ok item and a
\* failure marker and calling the operations again
C12_Witness ==
    /\ scan = 2 /\ changed = 0 /\ Done
    /\ \E m, n \in 1..Len(out) : IsOk(out[m]) /\ ~IsOk(out[n])
    /\ Len(calls) >= 3
    /\ out = earlier.out

-----------------------------------------------------------------------------
(* Images: what the generator references and what it has handed over *)

\* The images the consumer has received
Handed == { out[n].image : n \in { k \in 1..Len(out) : IsOk(out[k]) } }

\* The images the locals img and images reference
SeqImages(s) == { s[k] : k \in 1..Len(s) }
HeldInLocals == (IF img = None THEN {} ELSE {img}) \cup SeqImages(images)

\* convert_from_path is about to run, or runs, for page page_num (line 106)
Rendering == ctl = "generator" /\ pc = "render"

(* C13: the generator keeps no image it has handed to the consumer: while  *)
(* a page is being rendered its locals reference no image of an earlier    *)
(* page or file that the consumer has received.                            *)
C13_NoHandedImageRetained ==
    Rendering => HeldInLocals \cap Handed = {}

-----------------------------------------------------------------------------
(* Cancellation: a fourth specification, in which the consumer may close   *)
(* the stream instead of pulling.  close() raises GeneratorExit at the     *)
(* yield where the generator is suspended; no handler of the generator     *)
(* catches it (they catch Exception and its subclasses), there is no       *)
(* finally, and so the generator ends there and close() returns.           *)

\* item_iterator.close(), while the generator is suspended or not yet started
Close ==
    /\ ctl = "consumer"
    /\ pc \notin {"done", "closed", "raised"}
    /\ pc' = "closed"
    /\ UNCHANGED <<main_vars, fn_vars, images, page_img, walk_error>>
    /\ UNCHANGED <<input_dir, scan, earlier, changed, platform, walk, config, ctl, idx,
                   relative_path, total_pages, page_num, img, found_files_count,
                   processed_items_count, env, out, origin, calls, log>>

NextCancel ==
    \/ Next
    \/ Close

SpecCancel == Init /\ [][NextCancel]_vars

\* The entries whose image file was opened (line 64) and never closed (line 76)
LeftOpen ==
    { i \in 1..Len(env) : /\ env[i].decode = "ok" \/ env[i].decode_at \in {"load", "copy"}
                          /\ env[i].close = "not called" }

(* C14: when the consumer closes the stream while it is suspended at a     *)
(* yielded item, every image the stream opened for the file in progress    *)
(* has been closed by the time the stream has finished.                    *)
C14_CloseReleasesResources ==
    pc = "closed" => LeftOpen = {}

-----------------------------------------------------------------------------
\* The operation recorded for the entry and page of origin o failed
FailureAt(o) ==
    /\ o.file \in 1..Len(env)
    /\ LET e == env[o.file]
       IN  \/ e.decode \in DecodeErrors
           \/ e.close = "raise"
           \/ e.probe \in ProbeErrors
           \/ o.page \in 1..Len(e.render) /\ e.render[o.page] # "ok"

\* The items without a descriptor
Bare == { n \in 1..Len(out) : out[n].metadata = None }

(* C15, as claimed: an item without a descriptor is yielded only for a      *)
(* failure of the scan as a whole, never for a failure tied to one image    *)
(* file or one page of a PDF.                                               *)
C15_BareFailedOnlyForScanFailure ==
    \A n \in Bare : ~FailureAt(origin[n])

-----------------------------------------------------------------------------
(* Termination: a fifth specification, with the listings of the second one *)
(* and an input directory that may be missing, in which the consumer keeps *)
(* pulling and every step of the generator, once begun, comes to its end   *)
(* (every external call returns or raises).                                *)
InitLive ==
    /\ input_dir \in Roots
    /\ scan = 1
    /\ earlier = NoEarlier
    /\ changed = 0
    /\ platform = "windows"
    /\ walk \in WalksExt \cup { <<>> }
    /\ input_dir # "directory" => walk = <<>>
    /\ config = {}
    /\ ctl = "consumer"
    /\ pc = "start"
    /\ idx = 0
    /\ relative_path = <<>>
    /\ total_pages = 0
    /\ page_num = 0
    /\ img = None
    /\ found_files_count = 0
    /\ processed_items_count = 0
    /\ env = <<>>
    /\ out = <<>>
    /\ origin = <<>>
    /\ calls = <<>>
    /\ log = <<>>
    /\ images = <<>>
    /\ page_img = None
    /\ walk_error = "none"
    /\ total_items_yielded = 0
    /\ processed_count = 0
    /\ error_count = 0
    /\ stages = <<>>
    /\ exit_code = NotExited
    /\ output_dir = EmptyDir
    /\ call = NoCall
    /\ ret = NoCall

SpecLive == InitLive /\ [][Next]_vars /\ WF_vars(Pull) /\ WF_vars(Generator)

\* Entry i has a supported extension
Supported(i) ==
    file_extension(walk[i].name) \in SUPPORTED_IMAGE_EXT \cup SUPPORTED_PDF_EXT

\* The pages the items of entry i were yielded for, in order
PagesYielded(i) == [k \in 1..Len(Positions(i)) |-> origin[Positions(i)[k]].page]

\* Every page the probe reported for the PDF i has its item, in page order
AllPagesYielded(i) ==
    /\ env[i].probe = "ok"
    /\ ProbedPages(i) >= 1
    /\ PagesYielded(i) = [k \in 1..ProbedPages(i) |-> k]

(* C16, as claimed: a consumer that keeps pulling reaches the end of the    *)
(* stream, and the end is reached only after every supported file has been  *)
(* yielded, an image as its item and a PDF as the item of its failed probe  *)
(* or as the items of all its pages.                                        *)
C16_EndsAfterEverySupportedFile ==
    /\ <>Done
    /\ [](Done => \A i \in 1..Len(walk) :
                     Supported(i) =>
                        /\ i <= Len(env)
                        /\ Positions(i) # <<>>
                        /\ TakenAsPdf(i) =>
                              (env[i].probe \in ProbeErrors \/ AllPagesYielded(i)))

-----------------------------------------------------------------------------
\* How many times operation op was called on entry i
CallCount(op, i) ==
    LET path == file_path(walk[i])
        Mine(c) == c.op = op /\ c.path = path
    IN  Len(SelectSeq(calls, Mine))

\* How many markers (None, None) were yielded for entry i at page
BareCount(i, page) ==
    Cardinality({ n \in 1..Len(out) : out[n].metadata = None /\ origin[n] = Origin(i, page) })

(* C17: within one scan the decode is called at most once per image file,  *)
(* the probe exactly once per PDF and the render at most once per page of  *)
(* a file, whether or not the call fails; a failed decode, probe or render *)
(* yields exactly one failure item and the operation is not called again.  *)
C17_NoRetry ==
    \A i \in 1..Len(env) :
        LET rc == RenderCalls(i)
            pos == Positions(i)
        IN  /\ CallCount("Image.open", i) = (IF TakenAsImage(i) THEN 1 ELSE 0)
            /\ CallCount("pdfinfo_from_path", i) = (IF TakenAsPdf(i) THEN 1 ELSE 0)
            /\ Len(rc) = Len(env[i].render)
            /\ \A k \in 1..Len(rc) : rc[k].first_page = k
            /\ env[i].decode \in DecodeErrors =>
                  /\ BareCount(i, 1) = 1
                  /\ Len(pos) = 1
            /\ env[i].probe \in ProbeErrors =>
                  /\ BareCount(i, 0) = 1
                  /\ Len(pos) = 1
                  /\ rc = <<>>
            /\ \A k \in 1..Len(env[i].render) :
                  BareCount(i, k) = (IF env[i].render[k] = "ok" THEN 0 ELSE 1)

\* the end of a scan in which a PDF's first page failed to render and its
\* second page rendered, each after one call
C17_Witness ==
    /\ Done
    /\ \E i \in 1..Len(env) :
          /\ Len(env[i].render) >= 2
          /\ env[i].render[1] = "raise" /\ env[i].render[2] = "ok"
          /\ CallCount("convert_from_path", i) = Len(env[i].render)
          /\ BareCount(i, 1) = 1

-----------------------------------------------------------------------------
(* core/output_handler.py: sanitize_filename and save_result.  A string is  *)
(* a sequence of one-character strings, as the file names above are.        *)

Letters == { LowerCase[i] : i \in DOMAIN LowerCase } \cup { UpperCase[i] : i \in DOMAIN UpperCase }
DigitChars == <<"0","1","2","3","4","5","6","7","8","9">>
Digits == { DigitChars[i] : i \in DOMAIN DigitChars }

SetMin(S) == CHOOSE m \in S : \A x \in S : m <= x

\* str.strip(chars)
strip(s, chars) ==
    LET keep == { i \in 1..Len(s) : s[i] \notin chars }
    IN  IF keep = {} THEN <<>> ELSE SubSeq(s, SetMin(keep), SetMax(keep))

\* re.sub(r'[...]+', '_', s): every maximal run of characters of the set
\* bad is replaced by one underscore
re_sub_runs(s, bad) ==
    LET Kept(i) == s[i] \notin bad \/ i = 1 \/ s[i - 1] \notin bad
        kept == SelectSeq([i \in 1..Len(s) |-> i], Kept)
    IN  [k \in 1..Len(kept) |-> IF s[kept[k]] \in bad THEN "_" ELSE s[kept[k]]]

\* os.path.basename (line 14) of posixpath: the text after the last '/'.
\* (ntpath splits at a backslash and after a drive as well.)
Separators == {"/"}
os_path_basename(p) ==
    LET seps == { i \in 1..Len(p) : p[i] \in Separators }
    IN  SubSeq(p, (IF seps = {} THEN 0 ELSE SetMax(seps)) + 1, Len(p))

\* os.path.splitext(base_name)[0] (line 16)
splitext_root(p) == SubSeq(p, 1, Len(p) - Len(splitext(p)))

unnamed_file == <<"u","n","n","a","m","e","d","_","f","i","l","e">>

\* line 20: what the class [^\w.\-а-яА-ЯёЁ] matches among the characters a
\* name is made of here, a letter standing for any character of \w
NameChars == {"a", "B", "1", "_", ".", "-", " ", "*", "?", "/", "\\"}
NotAllowedInName == { c \in NameChars : c \notin Letters \cup Digits \cup {"_", ".", "-"} }

\* lines 9-28
sanitize_filename(filename) ==
    IF filename = <<>> THEN unnamed_file
    ELSE LET base_name == os_path_basename(filename)
             name_part == splitext_root(base_name)
             replaced  == re_sub_runs(name_part, NotAllowedInName)
             collapsed == re_sub_runs(replaced, {"_"})
             sanitized_name == strip(collapsed, {"_"})
         IN  IF sanitized_name = <<>> THEN unnamed_file ELSE sanitized_name

\* str(page_num) of the f-string of line 60, for page_num >= 0
RECURSIVE str(_)
str(n) ==
    IF n < 10 THEN << DigitChars[n + 1] >>
    ELSE Append(str(n \div 10), DigitChars[(n % 10) + 1])

\* A configured value that is a string; any other value is None here
StrValue(s) == [str |-> s]
IsStr(v) == "str" \in DOMAIN v

Json == <<"j","s","o","n">>

\* line 60
output_filename(original_filename, page, output_format) ==
    sanitize_filename(original_filename) \o <<"_","p","a","g","e","_">> \o str(page)
        \o <<".">> \o output_format

\* A file of the output directory: its name and what json.dump wrote
File(name, document, complete) == [name |-> name, document |-> document, complete |-> complete]

\* open(output_path, 'w'): the file is created, or truncated if it exists
Written(dir, name, document, complete) ==
    [exists |-> TRUE,
     files  |-> { f \in dir.files : f.name # name } \cup { File(name, document, complete) }]

\* What the calls of lines 64-69 can do: makedirs can fail only when it has
\* a directory to create
IoOutcomes(dir) ==
    {"ok", "open raises", "dump raises"} \cup (IF dir.exists THEN {} ELSE {"makedirs raises"})

Returned(value, raised, dir, io) == [value |-> value, raised |-> raised, dir |-> dir, io |-> io]

\* lines 30-84.  The format is read and lower-cased before the try (line 49),
\* so a configured value without a lower method raises AttributeError.
save_result(dir, data_to_save, original_filename, page, cfg, io) ==
    LET configured == DictGet(cfg, "output_format", StrValue(Json))
    IN  IF ~IsStr(configured) THEN Returned(FALSE, "AttributeError", dir, "not reached")
        ELSE LET output_format == lower(configured.str)
                 name == output_filename(original_filename, page, output_format)
             IN  CASE output_format # Json -> Returned(FALSE, "none", dir, "not reached")
                   [] output_format = Json /\ io = "makedirs raises" ->
                        Returned(FALSE, "none", dir, io)
                   [] output_format = Json /\ io = "open raises" ->
                        Returned(FALSE, "none", [dir EXCEPT !.exists = TRUE], io)
                   [] output_format = Json /\ io = "dump raises" ->
                        Returned(FALSE, "none", Written(dir, name, data_to_save, FALSE), io)
                   [] OTHER ->
                        Returned(TRUE, "none", Written(dir, name, data_to_save, TRUE), io)

(* A seventh specification: one call of save_result, on every name of at    *)
(* most MaxNameLen characters and the two names of the module's self-test.  *)

MaxNameLen == 3

SeqsUpTo(S, n) == UNION { [1..k -> S] : k \in 0..n }

\* lines 116 and 137: 'Мой Док.pdf' and 'файл*с/\символами?.png', a Latin
\* letter standing for each run of Cyrillic ones
SelfTestName1 == <<"M"," ","D",".","p","d","f">>
SelfTestName2 == <<"f","*","c","/","\\","s","?",".","p","n","g">>

SaveNameChars == {"a", "_", ".", "*", "/", "\\"}
SaveNames == SeqsUpTo(SaveNameChars, MaxNameLen) \cup {SelfTestName1, SelfTestName2}
SavePageNums == {1, 10}
SaveData == [text |-> "new"]
SaveConfigs ==
    { {} } \cup { { <<"output_format", StrValue(s)>> } :
                    s \in { Json, <<"J","S","O","N">>, <<"x","m","l">> } }
           \cup { { <<"output_format", None>> } }
SaveDirs ==
    { [exists |-> FALSE, files |-> {}],
      [exists |-> TRUE,
       files  |-> { File(output_filename(<<"a">>, 1, Json), [text |-> "old"], TRUE) }] }

SaveCall(original_filename, page) ==
    [op |-> "save_result", data_to_save |-> SaveData,
     original_filename |-> original_filename, page_num |-> page]

\* No scan and no run of main is under way
Idle ==
    /\ input_dir = "directory"
    /\ scan = 1
    /\ earlier = NoEarlier
    /\ changed = 0
    /\ walk = <<>>
    /\ ctl = "consumer"
    /\ pc = "start"
    /\ idx = 0
    /\ relative_path = <<>>
    /\ total_pages = 0
    /\ page_num = 0
    /\ img = None
    /\ found_files_count = 0
    /\ processed_items_count = 0
    /\ env = <<>>
    /\ out = <<>>
    /\ origin = <<>>
    /\ calls = <<>>
    /\ log = <<>>
    /\ images = <<>>
    /\ page_img = None
    /\ walk_error = "none"
    /\ total_items_yielded = 0
    /\ processed_count = 0
    /\ error_count = 0
    /\ stages = <<>>
    /\ exit_code = NotExited

InitSave ==
    /\ Idle
    /\ platform = "posix"
    /\ config \in SaveConfigs
    /\ output_dir \in SaveDirs
    /\ call \in { SaveCall(n, p) : n \in SaveNames, p \in SavePageNums }
    /\ ret = NoCall

\* the call of save_result
SaveResult ==
    /\ call.op = "save_result"
    /\ ret = NoCall
    /\ \E io \in IoOutcomes(output_dir) :
        LET r == save_result(output_dir, call.data_to_save, call.original_filename,
                             call.page_num, config, io)
        IN  /\ ret' = [op |-> "save_result", value |-> r.value, raised |-> r.raised, io |-> r.io]
            /\ output_dir' = r.dir
    /\ UNCHANGED <<call, main_vars>>
    /\ UNCHANGED <<input_dir, scan, earlier, changed, platform, walk, config, ctl, pc, idx,
                   relative_path, total_pages, page_num, img, images, page_img,
                   found_files_count, processed_items_count, walk_error, env, out,
                   origin, calls, log>>

NextSave == SaveResult

SpecSave == InitSave /\ [][NextSave]_vars

\* The call returned after the format check, with every I/O call succeeding
SavedAsJson == ret.op = "save_result" /\ ret.io = "ok"

\* The base name the claim describes: the whole name up to its extension,
\* the part before a separator included, every run of other characters
\* replaced by one underscore and the underscores at both ends stripped
\* (read with the code's merging of adjacent underscores and its fallback
\* for a name of which nothing is left)
ClaimedBase(filename) ==
    LET ext == splitext(os_path_basename(filename))
        whole == SubSeq(filename, 1, Len(filename) - Len(ext))
        stripped == strip(re_sub_runs(re_sub_runs(whole, NotAllowedInName), {"_"}), {"_"})
    IN  IF stripped = <<>> THEN unnamed_file ELSE stripped

(* C22, as claimed: save_result with output format 'json' returns True and  *)
(* creates '<S>_page_<page_num>.json' in the output directory, S being the  *)
(* whole original_filename without its extension, runs of characters other  *)
(* than letters, digits, underscore, dot and hyphen replaced by one         *)
(* underscore and the underscores at both ends stripped, the part before a  *)
(* path separator being kept.                                               *)
C22_SavedUnderWholeName ==
    SavedAsJson =>
        /\ ret.value = TRUE
        /\ \E f \in output_dir.files :
              /\ f.name = ClaimedBase(call.original_filename)
                            \o <<"_","p","a","g","e","_">> \o str(call.page_num) \o <<".">> \o Json
              /\ f.document = call.data_to_save

-----------------------------------------------------------------------------
(* The orchestrator: a sixth specification, in which the consumer is the    *)
(* loop of main (src/main.py lines 185-209) and then its exit.              *)

\* The stages of process_single_item, in the order of lines 63-120
Stages == << "preprocess", "ocr", "clean", "save" >>

\* The logging calls of process_single_item that can raise: line 57, before
\* the try; line 126, inside it; line 131, in its handler
ReportOutcomes == {"line 57 raises", "line 126 raises", "line 131 raises",
                   "lines 126 and 131 raise"}

\* What the stages can do (lines 64-119): preprocess_image and extract_text
\* return their result or None, or raise; clean_text returns or raises;
\* save_result does what its I/O calls let it do.  The logging calls return.
StageOutcomes(dir) ==
    [preprocess : {"ok", "none", "raise"},
     ocr        : {"ok", "none", "raise"},
     clean      : {"ok", "raise"},
     save       : IoOutcomes(dir),
     report     : {"ok"}]

\* The same, with a logging call that raises
StageOutcomesRaising(dir) ==
    [preprocess : {"ok", "none", "raise"},
     ocr        : {"ok", "none", "raise"},
     clean      : {"ok", "raise"},
     save       : IoOutcomes(dir),
     report     : ReportOutcomes]

\* lines 94-108: what is written for an item, as far as it tells items apart
output_data(metadata) ==
    [relative_path |-> metadata.relative_path, page_number |-> metadata.page_num]

\* What process_single_item sees of the call of save_result
SaveOutcome(saved) ==
    IF saved.raised # "none" THEN "raise" ELSE IF saved.value THEN "true" ELSE "false"

\* process_single_item as it would be if a None returned by a stage were
\* passed on to the next stage
process_single_item_PassesNoneOn(metadata, does, dir) ==
    LET saved == save_result(dir, output_data(metadata), metadata.original_filename,
                             metadata.page_num, config, does.save)
        last == IF does.preprocess = "raise" THEN 1
                ELSE IF does.ocr = "raise" THEN 2
                ELSE IF does.clean # "ok" THEN 3
                ELSE 4
        results == << does.preprocess, does.ocr, does.clean, SaveOutcome(saved) >>
        caught == \/ ~(last = 4 /\ SaveOutcome(saved) = "true")
                  \/ does.report \in {"line 126 raises", "lines 126 and 131 raise"}
    IN  IF does.report = "line 57 raises"
        THEN [ran |-> <<>>, results |-> <<>>, success |-> FALSE, dir |-> dir, raised |-> TRUE]
        ELSE [ran     |-> SubSeq(Stages, 1, last),
              results |-> SubSeq(results, 1, last),
              success |-> ~caught,
              dir     |-> IF last = 4 THEN saved.dir ELSE dir,
              raised  |-> caught /\ does.report \in {"line 131 raises",
                                                      "lines 126 and 131 raise"}]

\* process_single_item (lines 53-133): the stages run until one fails.  A
\* None from preprocess_image or extract_text and a False from save_result
\* are turned into ValueError (lines 65-66, 79-80, 121-122); every exception
\* raised inside the try, that of the logging call of line 126 included, is
\* caught on line 128 and the result is the success flag.  The logging calls
\* of lines 57 and 131 are outside the try: when one raises, the function
\* raises (raised), with the stages it ran and the file it wrote left as
\* they are.
process_single_item(metadata, does, dir) ==
    LET saved == save_result(dir, output_data(metadata), metadata.original_filename,
                             metadata.page_num, config, does.save)
        last == IF does.preprocess # "ok" THEN 1
                ELSE IF does.ocr # "ok" THEN 2
                ELSE IF does.clean # "ok" THEN 3
                ELSE 4
        results == << does.preprocess, does.ocr, does.clean, SaveOutcome(saved) >>
        caught == \/ ~(last = 4 /\ SaveOutcome(saved) = "true")
                  \/ does.report \in {"line 126 raises", "lines 126 and 131 raise"}
    IN  IF does.report = "line 57 raises"
        THEN [ran |-> <<>>, results |-> <<>>, success |-> FALSE, dir |-> dir, raised |-> TRUE]
        ELSE [ran     |-> SubSeq(Stages, 1, last),
              results |-> SubSeq(results, 1, last),
              success |-> ~caught,
              dir     |-> IF last = 4 THEN saved.dir ELSE dir,
              raised  |-> caught /\ does.report \in {"line 131 raises",
                                                      "lines 126 and 131 raise"}]

\* What main keeps of the result: the success flag (with the stages run)
StageRecord(r) == [ran |-> r.ran, results |-> r.results, success |-> r.success]

\* What main records of an item it skips
Skipped == [ran |-> <<>>, results |-> <<>>, success |-> FALSE]

\* An item has been yielded that main has not yet received
Pending == ctl = "consumer" /\ Len(out) = total_items_yielded + 1

\* line 187: the for loop asks for the next item
MainPull ==
    /\ exit_code = NotExited
    /\ Len(out) = total_items_yielded
    /\ Pull

\* MainSkipFailed as it would be if a failure item ended the run
MainSkipFailed_EndsRun ==
    /\ exit_code = NotExited
    /\ Pending
    /\ LET item == out[Len(out)]
       IN  item.metadata = None \/ item.image = None
    /\ total_items_yielded' = total_items_yielded + 1
    /\ error_count' = error_count + 1
    /\ stages' = Append(stages, Skipped)
    /\ exit_code' = 1
    /\ UNCHANGED processed_count
    /\ UNCHANGED <<input_dir, scan, earlier, changed, platform, walk, config, ctl, pc, idx,
                   relative_path, total_pages, page_num, img, images, page_img,
                   found_files_count, processed_items_count, walk_error, env, out,
                   origin, calls, log, fn_vars>>

\* lines 188-196: an item without metadata or without image is counted and skipped
MainSkipFailed ==
    /\ exit_code = NotExited
    /\ Pending
    /\ LET item == out[Len(out)]
       IN  item.metadata = None \/ item.image = None
    /\ total_items_yielded' = total_items_yielded + 1
    /\ error_count' = error_count + 1
    /\ stages' = Append(stages, Skipped)
    /\ UNCHANGED <<processed_count, exit_code>>
    /\ UNCHANGED <<input_dir, scan, earlier, changed, platform, walk, config, ctl, pc, idx,
                   relative_path, total_pages, page_num, img, images, page_img,
                   found_files_count, processed_items_count, walk_error, env, out,
                   origin, calls, log, fn_vars>>

\* lines 188 and 198-209: any other item goes through process_single_item
MainProcess ==
    /\ exit_code = NotExited
    /\ Pending
    /\ LET item == out[Len(out)]
       IN  ~(item.metadata = None \/ item.image = None)
    /\ \E does \in StageOutcomes(output_dir) :
        LET r == process_single_item(out[Len(out)].metadata, does, output_dir)
        IN  /\ ~r.raised
            /\ total_items_yielded' = total_items_yielded + 1
            /\ stages' = Append(stages, StageRecord(r))
            /\ output_dir' = r.dir
            /\ IF r.success
               THEN processed_count' = processed_count + 1 /\ UNCHANGED error_count
               ELSE error_count' = error_count + 1 /\ UNCHANGED processed_count
    /\ UNCHANGED <<exit_code, call, ret>>
    /\ UNCHANGED <<input_dir, scan, earlier, changed, platform, walk, config, ctl, pc, idx,
                   relative_path, total_pages, page_num, img, images, page_img,
                   found_files_count, processed_items_count, walk_error, env, out,
                   origin, calls, log>>

\* lines 188 and 198-209, with a logging call of process_single_item that
\* raises and from which the function still returns: the call of line 126
\* raises after the file was saved and is caught on line 128, or the call
\* that raises is not reached
MainProcessUnreported ==
    /\ exit_code = NotExited
    /\ Pending
    /\ LET item == out[Len(out)]
       IN  ~(item.metadata = None \/ item.image = None)
    /\ \E does \in StageOutcomesRaising(output_dir) :
        LET r == process_single_item(out[Len(out)].metadata, does, output_dir)
        IN  /\ ~r.raised
            /\ total_items_yielded' = total_items_yielded + 1
            /\ stages' = Append(stages, StageRecord(r))
            /\ output_dir' = r.dir
            /\ IF r.success
               THEN processed_count' = processed_count + 1 /\ UNCHANGED error_count
               ELSE error_count' = error_count + 1 /\ UNCHANGED processed_count
    /\ UNCHANGED <<exit_code, call, ret>>
    /\ UNCHANGED <<input_dir, scan, earlier, changed, platform, walk, config, ctl, pc, idx,
                   relative_path, total_pages, page_num, img, images, page_img,
                   found_files_count, processed_items_count, walk_error, env, out,
                   origin, calls, log>>

\* line 238
ExitCode ==
    IF processed_count > 0 \/ (total_items_yielded = 0 /\ error_count = 0) THEN 0 ELSE 1

\* lines 215-245: the stream has ended; statistics and exit.  Line 233 is
\* reached when nothing was processed and nothing yielded:
\* os.path.exists(input_dir_abs) and any(os.scandir(input_dir_abs)).  The
\* call stands in no try block, and os.scandir raises PermissionError for a
\* directory that exists and cannot be listed; lines 238-245 are then not
\* reached and the exception ends the process: the interpreter exits with
\* status 1.
MainEnd ==
    /\ exit_code = NotExited
    /\ ctl = "consumer"
    /\ pc = "done"
    /\ Len(out) = total_items_yielded
    /\ exit_code' = IF /\ processed_count = 0
                       /\ total_items_yielded = 0
                       /\ input_dir = "unreadable"
                    THEN 1
                    ELSE ExitCode
    /\ UNCHANGED <<total_items_yielded, processed_count, error_count, stages>>
    /\ UNCHANGED <<input_dir, scan, earlier, changed, platform, walk, config, ctl, pc, idx,
                   relative_path, total_pages, page_num, img, images, page_img,
                   found_files_count, processed_items_count, walk_error, env, out,
                   origin, calls, log, fn_vars>>

\* What main has of an item when an exception escapes the body of the loop:
\* the logging call of line 192 raised for a failure item (no stage run), or
\* process_single_item raised for any other item
Aborted(dir) ==
    LET item == out[Len(out)]
    IN  IF item.metadata = None \/ item.image = None
        THEN { [ran |-> <<>>, results |-> <<>>, success |-> FALSE, dir |-> dir, raised |-> TRUE] }
        ELSE { r \in { process_single_item(item.metadata, does, dir) :
                         does \in StageOutcomesRaising(dir) } : r.raised }

\* MainAbort as it would be if the handler left the counters as they were
MainAbort_KeepsCounters ==
    /\ exit_code = NotExited
    /\ Pending
    /\ \E r \in Aborted(output_dir) :
        /\ stages' = Append(stages, StageRecord(r))
        /\ output_dir' = r.dir
    /\ total_items_yielded' = total_items_yielded + 1
    /\ UNCHANGED <<processed_count, error_count>>
    /\ exit_code' = ExitCode'
    /\ UNCHANGED <<call, ret>>
    /\ UNCHANGED <<input_dir, scan, earlier, changed, platform, walk, config, ctl, pc, idx,
                   relative_path, total_pages, page_num, img, images, page_img,
                   found_files_count, processed_items_count, walk_error, env, out,
                   origin, calls, log>>

\* lines 187-199 and 211-240: an exception escapes the body of the loop while
\* an item is being handled, after it was counted in total_items_yielded and
\* before it was counted as processed or failed.  What raises is a logging
\* call outside every try of its own: that of line 192, or that of line 57 or
\* 131 in process_single_item, whose stages have then run and whose file may
\* have been written.  The handler of line 211 sets error_count and main
\* goes on to its exit.
MainAbort ==
    /\ exit_code = NotExited
    /\ Pending
    /\ \E r \in Aborted(output_dir) :
        /\ stages' = Append(stages, StageRecord(r))
        /\ output_dir' = r.dir
    /\ total_items_yielded' = total_items_yielded + 1
    /\ UNCHANGED processed_count
    /\ error_count' = total_items_yielded' - processed_count'
    /\ exit_code' = ExitCode'
    /\ UNCHANGED <<call, ret>>
    /\ UNCHANGED <<input_dir, scan, earlier, changed, platform, walk, config, ctl, pc, idx,
                   relative_path, total_pages, page_num, img, images, page_img,
                   found_files_count, processed_items_count, walk_error, env, out,
                   origin, calls, log>>

\* The listings main is run on.  os.walk (line 46 of file_handler.py) goes
\* top-down: the files of the top directory come before those of a
\* sub-directory.
WalksMain ==
    { <<>>,
      << Entry(RootDir, NameOther, "other", 0) >>,
      << Entry(RootDir, NameImage, "image", 0), Entry(SubDir, NamePdf, "pdf", MaxPagesSub) >>,
      << Entry(RootDir, NameImage, "image", 0), Entry(SubDir, NameImage, "image", 0) >>,
      << Entry(RootDir, NamePdf, "pdf", MaxPagesMain), Entry(RootDir, NameOther, "other", 0),
         Entry(RootDir, NameImage, "image", 0) >> }

\* The configurations main is run with: the default output format, and an
\* output_format without a value
MainConfigs == { {}, { <<"output_format", None>> } }

\* main scans only what passed os.path.isdir on line 162: a directory, which
\* can be listed or not
InitMain ==
    /\ input_dir \in {"directory", "unreadable"}
    /\ scan = 1
    /\ earlier = NoEarlier
    /\ changed = 0
    /\ platform = "posix"
    /\ walk \in WalksMain
    /\ input_dir # "directory" => walk = <<>>
    /\ config \in MainConfigs
    /\ ctl = "consumer"
    /\ pc = "start"
    /\ idx = 0
    /\ relative_path = <<>>
    /\ total_pages = 0
    /\ page_num = 0
    /\ img = None
    /\ found_files_count = 0
    /\ processed_items_count = 0
    /\ env = <<>>
    /\ out = <<>>
    /\ origin = <<>>
    /\ calls = <<>>
    /\ log = <<>>
    /\ images = <<>>
    /\ page_img = None
    /\ walk_error = "none"
    /\ total_items_yielded = 0
    /\ processed_count = 0
    /\ error_count = 0
    /\ stages = <<>>
    /\ exit_code = NotExited
    /\ output_dir = EmptyDir
    /\ call = NoCall
    /\ ret = NoCall

NextMain ==
    \/ Generator
    \/ MainPull
    \/ MainSkipFailed
    \/ MainProcess
    \/ MainEnd

SpecMain == InitMain /\ [][NextMain]_vars

\* An eighth specification: the run of main in which a logging call can
\* raise, and an exception can so escape the body of the loop
NextMainAbort ==
    \/ NextMain
    \/ MainProcessUnreported
    \/ MainAbort

SpecMainAbort == InitMain /\ [][NextMainAbort]_vars

(* C18: the generator works only on demand.  An external operation is       *)
(* called, and the walk or the page loop advances, only while the generator *)
(* runs on a request of the consumer, every item yielded before having been *)
(* received; and main asks for the next item only when it has finished with *)
(* every item it received.                                                  *)
C18_WorkOnlyOnDemand ==
    [][ /\ (calls' # calls \/ env' # env \/ idx' # idx \/ page_num' # page_num) =>
              /\ ctl = "generator"
              /\ Len(out) = total_items_yielded
        /\ out' # out => (ctl = "generator" /\ ctl' = "consumer" /\ Len(out') = Len(out) + 1)
        /\ (ctl = "consumer" /\ ctl' = "generator") =>
              /\ Len(out) = total_items_yielded
              /\ Len(stages) = Len(out)
      ]_vars

\* main has handled the item of the first page of a PDF of several pages,
\* run through all stages, and the generator, suspended at its yield, has
\* rendered no later page and touched no later entry
C18_Witness ==
    /\ ctl = "consumer"
    /\ pc = "yield_page"
    /\ page_num = 1
    /\ total_pages >= 2
    /\ HasNext /\ Len(env) = idx
    /\ total_items_yielded = Len(out)
    /\ stages # <<>> /\ stages[Len(stages)].ran = Stages
    /\ CallCount("convert_from_path", idx) = 1
    /\ calls[Len(calls)].op = "convert_from_path"

-----------------------------------------------------------------------------
\* The items main has received that are failures, and those it processed
FailedReceived == { n \in 1..total_items_yielded : ~IsOk(out[n]) }
ProcessedReceived == { n \in 1..total_items_yielded : IsOk(out[n]) }

(* C19: main skips and counts every failure item.  For an item without     *)
(* metadata or image no stage of process_single_item runs and error_count  *)
(* grows by exactly one; the loop is left only when the stream has ended,  *)
(* with every item yielded received, whatever the number of failures.      *)
C19_FailedIsSkippedAndCounted ==
    /\ Len(stages) = total_items_yielded
    /\ \A n \in FailedReceived : stages[n] = Skipped
    /\ \A n \in ProcessedReceived : stages[n].ran # <<>>
    /\ error_count = Cardinality(FailedReceived)
                     + Cardinality({ n \in ProcessedReceived : ~stages[n].success })
    /\ processed_count = Cardinality({ n \in ProcessedReceived : stages[n].success })
    /\ exit_code # NotExited => (pc = "done" /\ total_items_yielded = Len(out))
    /\ (exit_code = NotExited /\ ctl = "consumer" /\ pc \notin {"done", "start"}) =>
          (ENABLED MainPull \/ Pending)

\* main has exited after skipping a failure item and then saving a later item
C19_Witness ==
    /\ exit_code # NotExited
    /\ error_count >= 1
    /\ \E m \in FailedReceived : \E n \in ProcessedReceived :
          m < n /\ stages[n].success

-----------------------------------------------------------------------------
\* Nothing but relpath failed on entry i
OnlyRelpathFailed(i) ==
    /\ env[i].relpath_error
    /\ env[i].decode \notin DecodeErrors
    /\ env[i].close # "raise"
    /\ env[i].probe \notin ProbeErrors
    /\ \A k \in 1..Len(env[i].render) : env[i].render[k] = "ok"

(* C20: when the relative path of an entry cannot be computed, the          *)
(* descriptor of its items carries the bare file name as relative_path; the *)
(* failure is logged and yields no failure item of its own; the file is     *)
(* decoded or probed and rendered as any other, and the walk goes on to the *)
(* entries after it.                                                        *)
C20_RelpathFallsBackToName ==
    \A i \in 1..Len(env) :
        env[i].relpath_error =>
            LET pos == Positions(i)
                path == file_path(walk[i])
            IN  /\ \A n \in 1..Len(pos) :
                      LET item == out[pos[n]]
                      IN  IF IsOk(item)
                          THEN /\ item.metadata.relative_path = << walk[i].name >>
                               /\ item.metadata.original_filename = walk[i].name
                               /\ item.metadata.source_path = path
                          ELSE FailureAt(origin[pos[n]])
                /\ \E n \in 1..Len(log) : log[n] = LogRecord("error", "relpath", path, 0)
                /\ Supported(i) => (TakenAsImage(i) \/ TakenAsPdf(i))
                /\ (OnlyRelpathFailed(i) /\ Finished(i)) =>
                      /\ \A n \in 1..Len(pos) : IsOk(out[pos[n]])
                      /\ TakenAsImage(i) => Len(pos) = 1
                      /\ TakenAsPdf(i) => Len(pos) = ProbedPages(i)
                /\ Done => Len(env) = Len(walk)

\* the end of a scan in which relpath failed for an image of the
\* sub-directory, yielded as Ok under its bare name, and the entry after it
\* yielded an Ok item too
C20_Witness ==
    /\ Done
    /\ \E i \in 1..Len(env) :
          /\ i < Len(walk)
          /\ walk[i].dir # <<>>
          /\ OnlyRelpathFailed(i) /\ TakenAsImage(i)
          /\ out[Positions(i)[1]].metadata.relative_path = << walk[i].name >>
          /\ Positions(i + 1) # <<>>
          /\ IsOk(out[Positions(i + 1)[1]])

-----------------------------------------------------------------------------
(* C21: every Ok item's descriptor is well-formed.  Its source_type is      *)
(* 'image' or 'pdf_page'; an image has page_num 1; a PDF page has a         *)
(* page_num from 1 to the page count the probe reported for its file;       *)
(* original_filename is the base name of source_path, and input_directory   *)
(* is the base name of the scanned root.                                    *)
C21_DescriptorWellFormed ==
    \A n \in 1..Len(out) :
        IsOk(out[n]) =>
            LET md == out[n].metadata
                i  == origin[n].file
            IN  /\ md.source_type \in {"image", "pdf_page"}
                /\ md.source_type = "image" => (md.page_num = 1 /\ TakenAsImage(i))
                /\ md.source_type = "pdf_page" =>
                      /\ env[i].probe = "ok"
                      /\ 1 <= md.page_num
                      /\ md.page_num <= ProbedPages(i)
                /\ md.original_filename = basename(md.source_path)
                /\ md.source_path = file_path(walk[i])
                /\ md.input_directory = basename(input_dir_abs)

\* the end of a scan that yielded the Ok item of an image of the
\* sub-directory and the Ok item of the last of several pages of a PDF
C21_Witness ==
    /\ Done
    /\ \E m \in 1..Len(out) : \E n \in 1..Len(out) :
          /\ IsOk(out[m]) /\ IsOk(out[n])
          /\ out[m].metadata.source_type = "image"
          /\ walk[origin[m].file].dir # <<>>
          /\ out[n].metadata.source_type = "pdf_page"
          /\ out[n].metadata.page_num = ProbedPages(origin[n].file)
          /\ out[n].metadata.page_num >= 2

-----------------------------------------------------------------------------
(* C28: the shape of the items.  Every item yielded is either a pair of a   *)
(* descriptor and an image, both other than None, or the pair (None, None); *)
(* a pair with exactly one None component is never yielded.                 *)
C28_ItemShape ==
    \A n \in 1..Len(out) :
        LET item == out[n]
        IN  /\ DOMAIN item = {"metadata", "image"}
            /\ \/ item.metadata # None /\ item.image # None
               \/ item.metadata = None /\ item.image = None
            /\ item.metadata = None <=> item.image = None

\* a stream that has yielded a pair of descriptor and image and, after it,
\* the pair (None, None)
C28_Witness ==
    \E m \in 1..Len(out) : \E n \in 1..Len(out) :
        /\ m < n
        /\ out[m].metadata # None /\ out[m].image # None
        /\ out[n] = FailedItem

-----------------------------------------------------------------------------
\* The log records written by the step being taken
NewLogs == { k \in 1..Len(log') : k > Len(log) }

\* Log record r names entry i: it carries the entry's full path or its
\* relative path (the bare name when relpath failed); for a failure of one
\* page it carries the page number too
NamesInput(r, i, page) ==
    /\ r.path \in { file_path(walk[i]), RelativePathOf(walk[i], env'[i].relpath_error) }
    /\ r.page = page

\* The step being taken yields a failure item
YieldsFailed == Len(out') = Len(out) + 1 /\ ~IsOk(out'[Len(out')])

\* The page the failure item being yielded is about, 0 for a whole file
FailedPage ==
    LET o == origin'[Len(origin')]
    IN  IF pc' = "yield_page_err" THEN o.page ELSE 0

\* The step being taken passes over a supported file without any item
SkipsSupported ==
    /\ idx' = idx + 1
    /\ Len(out') = Len(out)
    /\ pc' = "walk"
    /\ file_extension(walk[idx'].name) \in SUPPORTED_IMAGE_EXT \cup SUPPORTED_PDF_EXT

\* A record at one of the levels, written by the step, names the input
LoggedAt(levels, i, page) ==
    \E k \in NewLogs : log'[k].level \in levels /\ NamesInput(log'[k], i, page)

(* C23, as claimed: every failure item is preceded, after the previous      *)
(* yield and before its own, by a log record at error level that names the  *)
(* offending input, with the page number for a failure of one page; and no  *)
(* supported file is passed over without such an error record.              *)
C23_FailureLoggedAtErrorLevel ==
    [][ /\ YieldsFailed => LoggedAt({"error"}, origin'[Len(origin')].file, FailedPage)
        /\ SkipsSupported => LoggedAt({"error"}, idx', 0)
      ]_vars

(* C23, amended: every failure item is preceded, after the previous yield   *)
(* and before its own, by a log record that names the offending input, with *)
(* the page number for a failure of one page.  The record is at error level *)
(* when an exception was caught, and at warning level when a page rendered  *)
(* to an empty list; a PDF whose probe reports no page is passed over with  *)
(* a record at warning level that names it.                                 *)
C23_FailureLogged ==
    [][ /\ YieldsFailed =>
              LET i == origin'[Len(origin')].file
                  empty == /\ pc' = "yield_page_err"
                           /\ env'[i].render[FailedPage] = "empty"
              IN  /\ LoggedAt(IF empty THEN {"warning"} ELSE {"error"}, i, FailedPage)
                  /\ ~LoggedAt(IF empty THEN {"error"} ELSE {"warning"}, i, FailedPage)
        /\ SkipsSupported =>
              /\ LoggedAt({"warning"}, idx', 0)
              /\ env'[idx'].probe = "ok"
              /\ DictGet(env'[idx'].info, "Pages", 0) <= 0
      ]_vars

\* a stream that has yielded a failure item for a page rendered to an empty
\* list, one for a page whose render raised, and has passed over a PDF
\* without pages, with the three records in the log
C23_Witness ==
    /\ \E n \in 1..Len(out) :
          /\ ~IsOk(out[n])
          /\ origin[n].page \in 1..Len(env[origin[n].file].render)
          /\ env[origin[n].file].render[origin[n].page] = "empty"
          /\ \E k \in 1..Len(log) : log[k].level = "warning" /\ log[k].page = origin[n].page
    /\ \E n \in 1..Len(out) :
          /\ ~IsOk(out[n])
          /\ origin[n].page \in 1..Len(env[origin[n].file].render)
          /\ env[origin[n].file].render[origin[n].page] \notin {"ok", "empty"}
          /\ \E k \in 1..Len(log) : log[k].level = "error" /\ log[k].page = origin[n].page
    /\ \E i \in 1..Len(env) :
          /\ Finished(i) /\ env[i].probe = "ok" /\ ProbedPages(i) <= 0
          /\ \E k \in 1..Len(log) : log[k].level = "warning" /\ log[k].msg = "pdf without pages"

-----------------------------------------------------------------------------
\* The configured output format is other than 'json', compared without case
OtherThanJson(cfg) ==
    LET configured == DictGet(cfg, "output_format", StrValue(Json))
    IN  ~IsStr(configured) \/ lower(configured.str) # Json

(* C29, as claimed: save_result with a configured output_format other than  *)
(* 'json', compared case-insensitively, returns False and leaves the output *)
(* directory unchanged, no file and no directory being created or modified; *)
(* and save_result never raises, returning False on any I/O or              *)
(* serialization error.                                                     *)
C29_OtherFormatReturnsFalse ==
    [][ (ret = NoCall /\ ret' # NoCall) =>
            /\ ret'.raised = "none"
            /\ ret'.io \notin {"ok", "not reached"} => ret'.value = FALSE
            /\ OtherThanJson(config) => (ret'.value = FALSE /\ output_dir' = output_dir)
      ]_vars

-----------------------------------------------------------------------------
\* What a stage that did not succeed gave
StageFailed == {"none", "raise", "false"}

(* C24: process_single_item runs its stages strictly in the order           *)
(* preprocess, OCR, clean, save.  A stage is invoked only when every stage  *)
(* before it succeeded; when a stage fails, by returning None, by raising   *)
(* or, for save, by returning False, no later stage is invoked and the      *)
(* function returns success = False to the loop, which goes on; it returns  *)
(* success = True only when save_result returned True.                      *)
C24_StagesInOrderUntilFailure ==
    /\ Len(stages) = total_items_yielded
    /\ \A n \in 1..Len(stages) :
          LET s == stages[n]
              k == Len(s.ran)
          IN  /\ k <= Len(Stages)
              /\ s.ran = SubSeq(Stages, 1, k)
              /\ Len(s.results) = k
              /\ \A j \in 1..(k - 1) : s.results[j] = "ok"
              /\ IsOk(out[n]) => k >= 1
              /\ (k >= 1 /\ k < Len(Stages)) => (s.results[k] \in StageFailed /\ ~s.success)
              /\ s.success <=> (k = Len(Stages) /\ s.results[k] = "true")
              /\ (k = Len(Stages) /\ s.results[k] \in StageFailed) => ~s.success
    /\ processed_count = Cardinality({ n \in 1..Len(stages) : stages[n].success })
    /\ error_count = Cardinality({ n \in 1..Len(stages) : ~stages[n].success })

\* main has handled an item whose OCR returned None after a preprocess that
\* succeeded, with no later stage run, and then an item saved after all
\* four stages
C24_Witness ==
    \E m \in 1..Len(stages) : \E n \in 1..Len(stages) :
        /\ m < n
        /\ stages[m].ran = << "preprocess", "ocr" >>
        /\ stages[m].results = << "ok", "none" >>
        /\ ~stages[m].success
        /\ stages[n].ran = Stages
        /\ stages[n].success

-----------------------------------------------------------------------------
(* C25: the accounting of the orchestrator.  After every iteration of the   *)
(* loop, and when the exit code is computed, also after an exception that   *)
(* aborted the loop, total_items_yielded = processed_count + error_count,   *)
(* every item pulled being counted in exactly one of the two counters.      *)
C25_EveryItemCountedOnce ==
    /\ total_items_yielded = processed_count + error_count
    /\ Len(stages) = total_items_yielded
    /\ processed_count = Cardinality({ n \in 1..total_items_yielded : stages[n].success })
    /\ error_count = Cardinality({ n \in 1..total_items_yielded : ~stages[n].success })
    /\ exit_code = NotExited => total_items_yielded \in {Len(out), Len(out) - 1}
    /\ exit_code # NotExited => total_items_yielded = Len(out)

\* main has exited after an exception that aborted the loop while the
\* stream had not ended, one item saved and one failed before it; the item
\* in hand had gone through every stage and its file had been written
C25_Witness ==
    /\ exit_code # NotExited
    /\ pc # "done"
    /\ processed_count >= 1
    /\ error_count >= 2
    /\ stages[Len(stages)].ran = Stages
    /\ stages[Len(stages)].results[Len(Stages)] = "true"
    /\ ~stages[Len(stages)].success

-----------------------------------------------------------------------------
\* The items main saved
Saved == { n \in 1..Len(stages) : stages[n].success }

(* C26: the exit code of a run that reached the scan.  It is 0 exactly when *)
(* at least one item was processed and saved, or when no item was yielded   *)
(* and no error counted; it is 1 otherwise, in particular when items were   *)
(* yielded and all of them failed; a run with failed items and at least one *)
(* saved item exits with 0.                                                 *)
C26_ExitCode ==
    exit_code # NotExited =>
        /\ exit_code \in {0, 1}
        /\ exit_code = 0 <=> (Saved # {} \/ (Len(out) = 0 /\ error_count = 0))
        /\ (Len(out) > 0 /\ Saved = {}) => exit_code = 1
        /\ (Saved # {} /\ error_count > 0) => exit_code = 0
        /\ \A n \in Saved : stages[n].results[Len(Stages)] = "true"

-----------------------------------------------------------------------------
\* The name of the file an item is saved under
OutputName(item) ==
    output_filename(item.metadata.original_filename, item.metadata.page_num, Json)

(* C27, as claimed: within one run two distinct items processed with        *)
(* success are never saved to the same output path; at the end of the run   *)
(* every item counted in processed_count has its own output file, none      *)
(* overwritten by a later item.                                             *)
C27_NoOutputOverwritten ==
    exit_code # NotExited =>
        /\ \A n \in Saved :
              \E f \in output_dir.files :
                  /\ f.name = OutputName(out[n])
                  /\ f.complete
                  /\ f.document = output_data(out[n].metadata)
        /\ \A m \in Saved : \A n \in Saved :
              m # n => OutputName(out[m]) # OutputName(out[n])

-----------------------------------------------------------------------------
(* core/post_processor.py: clean_text.  A text is a sequence of characters, *)
(* each a one-character string, but for U+FFFD, which has no such string.   *)

ReplacementChar == "U+FFFD"

\* The characters str.strip() and str.split() take for whitespace, and those
\* str.splitlines() breaks a line at, among the characters a text is made
\* of here
Whitespace == {" ", "\t", "\n", "\r"}
LineBreaks == {"\n", "\r"}

\* str.replace(old, ''), for one character
remove_char(s, old) ==
    LET Other(c) == c # old
    IN  SelectSeq(s, Other)

\* str.splitlines(): "\r\n" is one line break, and a line break at the end
\* of the text opens no further line
RECURSIVE splitlines(_)
splitlines(s) ==
    LET breaks == { i \in 1..Len(s) : s[i] \in LineBreaks }
    IN  IF s = <<>> THEN <<>>
        ELSE IF breaks = {} THEN << s >>
        ELSE LET i == SetMin(breaks)
                 end == IF s[i] = "\r" /\ i < Len(s) /\ s[i + 1] = "\n" THEN i + 1 ELSE i
             IN  << SubSeq(s, 1, i - 1) >> \o splitlines(SubSeq(s, end + 1, Len(s)))

\* str.split(): the words between runs of whitespace
RECURSIVE split(_)
split(s) ==
    LET t == strip(s, Whitespace)
        spaces == { i \in 1..Len(t) : t[i] \in Whitespace }
    IN  IF t = <<>> THEN <<>>
        ELSE IF spaces = {} THEN << t >>
        ELSE << SubSeq(t, 1, SetMin(spaces) - 1) >>
                 \o split(SubSeq(t, SetMin(spaces) + 1, Len(t)))

\* sep.join(parts)
RECURSIVE str_join(_, _)
str_join(sep, parts) ==
    IF parts = <<>> THEN <<>>
    ELSE IF Len(parts) = 1 THEN parts[1]
    ELSE parts[1] \o sep \o str_join(sep, Tail(parts))

\* lines 32-37: one line, stripped and with its inner whitespace normalised
normalized_space_line(line) == str_join(<< " " >>, split(strip(line, Whitespace)))

\* re.sub(r'\n{2,}', '\n\n', s) (line 45): of a run of newlines the first two
\* are kept
squeeze_newlines(s) ==
    LET kept == { i \in 1..Len(s) :
                     ~(s[i] = "\n" /\ i >= 3 /\ s[i - 1] = "\n" /\ s[i - 2] = "\n") }
        Kept(i) == i \in kept
        at == SelectSeq([i \in 1..Len(s) |-> i], Kept)
    IN  [k \in 1..Len(at) |-> s[at[k]]]

\* clean_text as it would be if the blank lines between blocks of text were
\* reduced to one instead of being dropped
clean_text_KeepsOneBlankLine(raw_text) ==
    LET lines == splitlines(remove_char(raw_text, ReplacementChar))
        processed_lines == [k \in 1..Len(lines) |-> normalized_space_line(lines[k])]
    IN  strip(squeeze_newlines(str_join(<< "\n" >>, processed_lines)), Whitespace)

\* lines 6-54, for a string
clean_text(raw_text) ==
    LET lines == splitlines(remove_char(raw_text, ReplacementChar))
        NotEmpty(line) == line # <<>>
        processed_lines ==
            SelectSeq([k \in 1..Len(lines) |-> normalized_space_line(lines[k])], NotEmpty)
    IN  strip(squeeze_newlines(str_join(<< "\n" >>, processed_lines)), Whitespace)

(* A ninth specification: one call of clean_text, followed by a second call *)
(* on its result, on every text of at most MaxTextLen characters.           *)

MaxTextLen == 4

TextChars == {"a", "b", " ", "\t", "\n", "\r", ReplacementChar}
Texts == SeqsUpTo(TextChars, MaxTextLen)

InitClean ==
    /\ Idle
    /\ platform = "posix"
    /\ config = {}
    /\ output_dir = EmptyDir
    /\ call \in { [op |-> "clean_text", raw_text |-> t] : t \in Texts }
    /\ ret = NoCall

\* the call of clean_text (main.py line 85)
CleanText ==
    /\ call.op = "clean_text"
    /\ ret = NoCall
    /\ ret' = [op |-> "clean_text", value |-> clean_text(call.raw_text), again |-> FALSE]
    /\ UNCHANGED <<call, output_dir, main_vars>>
    /\ UNCHANGED <<input_dir, scan, earlier, changed, platform, walk, config, ctl, pc, idx,
                   relative_path, total_pages, page_num, img, images, page_img,
                   found_files_count, processed_items_count, walk_error, env, out,
                   origin, calls, log>>

\* clean_text is called on the text it returned
CleanTextAgain ==
    /\ ret.op = "clean_text"
    /\ ~ret.again
    /\ ret' = [op |-> "clean_text", value |-> clean_text(ret.value), again |-> TRUE]
    /\ UNCHANGED <<call, output_dir, main_vars>>
    /\ UNCHANGED <<input_dir, scan, earlier, changed, platform, walk, config, ctl, pc, idx,
                   relative_path, total_pages, page_num, img, images, page_img,
                   found_files_count, processed_items_count, walk_error, env, out,
                   origin, calls, log>>

NextClean == CleanText \/ CleanTextAgain

SpecClean == InitClean /\ [][NextClean]_vars

\* The text t is clean: it has no replacement character, and each of its
\* lines is non-empty, begins and ends with a character other than
\* whitespace, and has no two spaces in a row
Clean(t) ==
    /\ \A i \in 1..Len(t) : t[i] # ReplacementChar
    /\ \A i \in 1..(Len(t) - 1) : ~(t[i] = "\n" /\ t[i + 1] = "\n")
    /\ t # <<>> => (t[1] # "\n" /\ t[Len(t)] # "\n")
    /\ LET lines == splitlines(t)
       IN  \A k \in 1..Len(lines) :
              LET line == lines[k]
              IN  /\ line # <<>>
                  /\ line[1] \notin Whitespace
                  /\ line[Len(line)] \notin Whitespace
                  /\ \A i \in 1..(Len(line) - 1) : ~(line[i] = " " /\ line[i + 1] = " ")

(* C30: clean_text is idempotent on strings, clean_text(clean_text(t)) =    *)
(* clean_text(t), and its result has no replacement character U+FFFD, no    *)
(* empty line, no line with leading or trailing whitespace and no run of    *)
(* two or more spaces inside a line; the blank lines that separate blocks   *)
(* of text in the input are all removed, not reduced to one.                *)
C30_CleanTextIdempotent ==
    [][ /\ CleanText => Clean(ret'.value)
        /\ CleanTextAgain => (ret'.value = ret.value /\ Clean(ret'.value))
      ]_vars

\* clean_text has been called twice on a text in which a blank line
\* separates two blocks, and has returned the two blocks on adjacent lines
C30_Witness ==
    /\ ret.op = "clean_text"
    /\ ret.again
    /\ call.raw_text = << "a", "\n", "\n", "b" >>
    /\ ret.value = << "a", "\n", "b" >>

====
